---- MODULE Spec2Model ----
(***************************************************************************)
(* Model of the smsgate message lifecycle.                                 *)
(*                                                                         *)
(* Part 1: the message entity of server/sms.py (class SMS) and its         *)
(* multi-part reassembly: the constructor, add_part, is_multipart,         *)
(* is_part_complete, get_concatenated_text and get_text.                   *)
(*                                                                         *)
(* A text is a sequence of code points.  An Optional[int] argument is a    *)
(* sequence of length at most one: <<>> is None, <<n>> is the integer n.   *)
(***************************************************************************)
EXTENDS Integers, Sequences, FiniteSets, TLC

\* ------------------------------------------------------------------ bounds
\* largest part number and largest declared total that are tried
MaxParts == 3
\* number of part numbers below 1 that are tried (0, -1, ...)
BadParts == 2
\* number of distinct code points texts are made of
MaxChars == 2

\* the code points texts are made of ('A', 'B', ...)
Alphabet == 65..(64 + MaxChars)

\* the texts of the constructor and of one part: empty or one character, so
\* that texts of several characters arise by concatenation only
Texts == {<<>>} \cup {<<c>> : c \in Alphabet}

\* the part numbers add_part is called with, valid and invalid
PartNumbers == (1 - BadParts)..MaxParts

\* Optional[int] values of the constructor's total_parts and part_number
OptionalParts == {<<>>} \cup {<<n>> : n \in 1..MaxParts}

\* ------------------------------------------------------------------- state
VARIABLES
    text,          \* SMS.text
    total_parts,   \* SMS.total_parts
    part_number,   \* SMS.part_number (Optional)
    parts,         \* SMS.parts: dict part number -> part text
    ctor,          \* the arguments the constructor was called with
    submitted,     \* part number -> text argument of the last add_part call
                   \* for it that returned normally
    replaced,      \* <<>>, or <<t>> with t the text the last observed add_part
                   \* call found stored under its index
    call,          \* the last method call and how it ended
    wire,          \* <<d>>: the dict of the last to_dict() call, on its way
                   \* to the client; <<>>: none (no call, it raised, or the
                   \* client has received it)
    plain,         \* the text the last to_dict() call had to encode
    decoded,       \* <<r>>: outcome of the client's _decode_text on the text
                   \* field of the dict of this reply; <<>>: not received yet
    events,        \* table events: the rows in insertion order, row i has id i
    now,           \* the clock read by datetime.now() and CURRENT_TIMESTAMP
    inflight,      \* process -> <<>>, or <<t>> with t the parameter tuple of
                   \* its add_event call whose INSERT has not run yet
    issued,        \* id returned by add_event -> the arguments supplied for
                   \* that event (status and error: as last supplied)
    db_call,       \* the last call of the storage layer and its result
    modem_state,   \* table modem_state: the set of its rows
    modem_log,     \* the update_modem_state calls that have ended, in the
                   \* order they ended, each with how it ended
    upsert,        \* process -> <<>>, or <<u>> with u the update_modem_state
                   \* call whose SELECT has run and whose write has not
    financial_activity,  \* table financial_activity: the rows in insertion
                   \* order, row i has id i
    utcoffset,     \* local time minus UTC on the host of the storage layer
    pc,            \* where the RPC client stands in send_sms
    clock,         \* the time of the RPC client's thread since its send_sms
                   \* call began
    request,       \* the arguments of the send_sms call in progress, or
                   \* the name of the other method in progress
    rpc_log,       \* the RPCs the client's call has issued, in order, with
                   \* their replies, and the sleeps between them
    returned,      \* <<>>, or <<v>> with v the value the client's call
                   \* returned
    conversations, \* conversation handler -> user -> <<>> (no conversation)
                   \* or <<s>> with s the state of the conversation
    user_data,     \* user -> context.user_data, a dict
    bot_update     \* the last update the chat bot received, the callback
                   \* that handled it and the calls of the RPC client the
                   \* callback made

\* the message entity
smsVars == <<text, total_parts, part_number, parts, ctor, submitted, replaced>>

\* the serialised message on its way to the RPC client
wireVars == <<wire, plain, decoded>>

\* the event store
dbVars == <<events, now, inflight, issued, db_call>>

\* the modem state tracker and the financial ledger
storeVars == <<modem_state, modem_log, upsert, financial_activity, utcoffset>>

\* the RPC client
rpcVars == <<pc, clock, request, rpc_log, returned>>

\* the chat bot
botVars == <<conversations, user_data, bot_update>>

vars == <<text, total_parts, part_number, parts, ctor, submitted, replaced, call,
          wire, plain, decoded, events, now, inflight, issued, db_call,
          modem_state, modem_log, upsert, financial_activity, utcoffset,
          pc, clock, request, rpc_log, returned,
          conversations, user_data, bot_update>>

\* the empty dict
EmptyDict == <<>>

\* ------------------------------------------------------- SMS.__init__ (88)
InitTotalPartsZero(arg) == IF arg # <<>> THEN arg[1] ELSE 0

\* self.total_parts = total_parts if total_parts is not None else 1
InitTotalParts(arg) == IF arg # <<>> THEN arg[1] ELSE 1

\* -------------------------------------------------------------- predicates
\* len(self.parts)
LenParts == Cardinality(DOMAIN parts)

is_multipart_parts_only == LenParts > 1

\* SMS.is_multipart
is_multipart == LenParts > 1 \/ total_parts > 1

is_part_complete_no_single == LenParts = total_parts

\* SMS.is_part_complete
is_part_complete ==
    IF ~is_multipart THEN TRUE ELSE LenParts = total_parts

\* SMS.get_text
get_text == text

\* ''.join(self.parts[i] for i in range(lo, hi + 1)): the generator raises
\* KeyError at the first index that is not a key of the dict
RECURSIVE JoinRange(_, _, _)
JoinRange(d, lo, hi) ==
    IF lo > hi THEN [raised |-> "None", value |-> <<>>]
    ELSE IF lo \notin DOMAIN d THEN [raised |-> "KeyError", value |-> <<>>]
    ELSE LET rest == JoinRange(d, lo + 1, hi)
         IN  IF rest.raised # "None" THEN rest
             ELSE [raised |-> "None", value |-> d[lo] \o rest.value]

RECURSIVE JoinRangeDesc(_, _, _)
JoinRangeDesc(d, lo, hi) ==
    IF lo > hi THEN [raised |-> "None", value |-> <<>>]
    ELSE IF hi \notin DOMAIN d THEN [raised |-> "KeyError", value |-> <<>>]
    ELSE LET rest == JoinRangeDesc(d, lo, hi - 1)
         IN  IF rest.raised # "None" THEN rest
             ELSE [raised |-> "None", value |-> d[hi] \o rest.value]

JoinPartsDesc(d, n) == JoinRangeDesc(d, 1, n)

\* the join of get_concatenated_text, over range(1, self.total_parts + 1)
JoinParts(d, n) == JoinRange(d, 1, n)

get_concatenated_text_unguarded ==
    IF ~is_multipart THEN [raised |-> "None", value |-> text]
    ELSE JoinParts(parts, total_parts)

\* SMS.get_concatenated_text: the value returned, or the exception raised
get_concatenated_text ==
    IF ~is_multipart THEN [raised |-> "None", value |-> text]
    ELSE IF ~is_part_complete THEN [raised |-> "None", value |-> text]
    ELSE LET joined == JoinParts(parts, total_parts)
         IN  IF joined.raised = "KeyError"
             THEN [raised |-> "None", value |-> text]
             ELSE joined

\* ------------------------------------------------------------ SMS.add_part
AddPartInvalidNegative(p) == p < 0

\* if part_number < 1: raise ValueError
AddPartInvalid(p) == p < 1

AddPartTotalKeep(tp, p) == tp

AddPartTotalAlways(tp, p) == p

AddPartTotalBeyondNext(tp, p) == IF p > tp + 1 THEN p ELSE tp

\* if part_number > self.total_parts: self.total_parts = part_number
AddPartTotal(tp, p) == IF p > tp THEN p ELSE tp

AddPartStoreFirstWins(d, p, t) ==
    [k \in DOMAIN d \cup {p} |-> IF k \in DOMAIN d THEN d[k] ELSE t]

\* self.parts[part_number] = text
AddPartStore(d, p, t) ==
    [k \in DOMAIN d \cup {p} |-> IF k = p THEN t ELSE d[k]]

AddPartTextAlways(tx, p, t) == t

\* if part_number == 1: self.text = text
AddPartText(tx, p, t) == IF p = 1 THEN t ELSE tx

add_part(p, t) ==
    IF AddPartInvalid(p)
    THEN /\ call' = [op |-> "add_part", args |-> <<p>>, raised |-> "ValueError"]
         /\ UNCHANGED <<text, total_parts, part_number, parts, ctor, submitted>>
         /\ UNCHANGED <<wireVars, dbVars, storeVars, rpcVars, botVars>>
    ELSE /\ total_parts' = AddPartTotal(total_parts, p)
         /\ parts' = AddPartStore(parts, p, t)
         /\ text' = AddPartText(text, p, t)
         /\ submitted' = [k \in DOMAIN submitted \cup {p} |->
                            IF k = p THEN t ELSE submitted[k]]
         /\ call' = [op |-> "add_part", args |-> <<p>>, raised |-> "None"]
         /\ UNCHANGED <<part_number, ctor>>
         /\ UNCHANGED <<wireVars, dbVars, storeVars, rpcVars, botVars>>

AddPart ==
    \E p \in PartNumbers, t \in Texts : add_part(p, t) /\ UNCHANGED replaced

\* ------------------------------------------------------------ specification
\* the state after SMS(sms_id, recipient, text, total_parts=.., part_number=..)
__init__(tx, tp, pn) ==
    /\ ctor = [text |-> tx, total_parts |-> tp, part_number |-> pn]
    /\ text = tx
    /\ total_parts = InitTotalParts(tp)
    /\ part_number = pn
    /\ parts = EmptyDict
    /\ submitted = EmptyDict
    /\ replaced = <<>>
    /\ call = [op |-> "__init__", args |-> <<>>, raised |-> "None"]

\* nothing has been serialised or received yet
NothingSent ==
    /\ wire = <<>>
    /\ plain = <<>>
    /\ decoded = <<>>

\* the processes that call the storage layer
Procs == {"gateway", "frontend"}

\* Database._init_db on a new file: the tables exist and are empty
_init_db ==
    /\ events = <<>>
    /\ now = 0
    /\ inflight = [p \in Procs |-> <<>>]
    /\ issued = <<>>
    /\ db_call = [op |-> "_init_db", args |-> <<>>, result |-> <<>>]
    /\ modem_state = {}
    /\ modem_log = <<>>
    /\ upsert = [p \in Procs |-> <<>>]
    /\ financial_activity = <<>>

\* the host of the storage layer keeps local time in UTC
LocalTimeIsUtc == utcoffset = 0

\* the users that send updates to the chat bot, and self.allowed_users
Users == {1, 2}
allowed_users == {1}

\* context.user_data of a user who has stored nothing
NoUserData == [k \in {} |-> ""]

\* SMSGateTelegramBot.__init__: no conversation runs and no update has come
BotInit ==
    /\ conversations = [h \in {"ussd", "sms"} |-> [u \in Users |-> <<>>]]
    /\ user_data = [u \in Users |-> NoUserData]
    /\ bot_update = [user |-> 0, kind |-> "none", data |-> "",
                     callback |-> "none", rpcs |-> <<>>]

\* SMSGateRPCClient.__init__: the client holds its token and no call runs
ClientInit ==
    /\ pc = "idle"
    /\ clock = 0
    /\ request = <<>>
    /\ rpc_log = <<>>
    /\ returned = <<>>

Init ==
    /\ \E tx \in Texts, tp \in OptionalParts, pn \in OptionalParts :
           __init__(tx, tp, pn)
    /\ NothingSent
    /\ _init_db
    /\ LocalTimeIsUtc
    /\ ClientInit
    /\ BotInit

Next == AddPart

Spec == Init /\ [][Next]_vars

\* add_part, watched for deliveries of an index that is already stored: the
\* same calls as AddPart, with a note of what the call found under its index
AddPartObserved ==
    \E p \in PartNumbers, t \in Texts :
        /\ add_part(p, t)
        /\ replaced' = IF p \in DOMAIN parts THEN <<parts[p]>> ELSE <<>>

\* a message built without a part number of its own
InitParts ==
    /\ \E tx \in Texts, tp \in OptionalParts : __init__(tx, tp, <<>>)
    /\ NothingSent
    /\ _init_db
    /\ LocalTimeIsUtc
    /\ ClientInit
    /\ BotInit

NextParts == AddPartObserved

SpecParts == InitParts /\ [][NextParts]_vars

(***************************************************************************)
(* Part 2: serialisation of a message for the RPC reply (SMS.to_dict) and  *)
(* the client's decoding of the text field (SMSGateRPCClient._decode_text, *)
(* applied by get_sms and get_all_sms).  A str is a sequence of code       *)
(* points, a bytes object a sequence of integers 0..255.                   *)
(***************************************************************************)
\* largest part number and largest declared total of a serialised message
MaxWireParts == 2

\* sample texts of a message: empty, ASCII 'A', Latin-1 e-acute, Cyrillic Pe, ASCII 'Man'
WireTexts == {<<>>, <<65>>, <<233>>, <<1055>>, <<77, 97, 110>>}

\* sample texts of the parts merged into it
WirePartTexts == {<<65>>, <<233>>, <<1055>>}

WireOptionalParts == {<<>>} \cup {<<n>> : n \in 1..MaxWireParts}

\* str.encode(codec) for a single-byte codec covering the code points
\* 0..limit-1: the bytes are the code points, anything else raises
StrEncode(str, limit) ==
    IF \A i \in 1..Len(str) : str[i] < limit
    THEN [raised |-> "None", value |-> str]
    ELSE [raised |-> "UnicodeEncodeError", value |-> <<>>]

\* bytes.decode(codec) for the same codecs
BytesDecode(bytes, limit) ==
    IF \A i \in 1..Len(bytes) : bytes[i] < limit
    THEN [raised |-> "None", value |-> bytes]
    ELSE [raised |-> "UnicodeDecodeError", value |-> <<>>]

\* the number of code points of latin1 and of ascii
Latin1Size == 256
AsciiSize == 128

\* the code point of the n-th character of the base64 alphabet A-Za-z0-9+/
B64Char(n) ==
    IF n < 26 THEN 65 + n
    ELSE IF n < 52 THEN 97 + (n - 26)
    ELSE IF n < 62 THEN 48 + (n - 52)
    ELSE IF n = 62 THEN 43 ELSE 47

\* the place of a code point in the base64 alphabet; '=' counts as 0
B64Index(c) ==
    IF c >= 65 /\ c <= 90 THEN c - 65
    ELSE IF c >= 97 /\ c <= 122 THEN c - 71
    ELSE IF c >= 48 /\ c <= 57 THEN c + 4
    ELSE IF c = 43 THEN 62
    ELSE IF c = 47 THEN 63 ELSE 0

\* the code point of the padding character '='
B64Pad == 61

\* base64.b64encode: three bytes become four characters, a last group of one
\* or two bytes is padded with '='
RECURSIVE b64encode(_)
b64encode(bytes) ==
    IF Len(bytes) = 0 THEN <<>>
    ELSE LET n  == IF Len(bytes) < 3 THEN Len(bytes) ELSE 3
             b1 == bytes[1]
             b2 == IF n >= 2 THEN bytes[2] ELSE 0
             b3 == IF n >= 3 THEN bytes[3] ELSE 0
             v  == b1 * 65536 + b2 * 256 + b3
         IN  << B64Char(v \div 262144),
                B64Char((v \div 4096) % 64),
                IF n >= 2 THEN B64Char((v \div 64) % 64) ELSE B64Pad,
                IF n >= 3 THEN B64Char(v % 64) ELSE B64Pad >>
             \o b64encode(SubSeq(bytes, n + 1, Len(bytes)))

\* base64.b64decode of correctly padded input: four characters become three
\* bytes, less one for each '=' of the last group
RECURSIVE b64decode(_)
b64decode(chars) ==
    IF Len(chars) = 0 THEN [raised |-> "None", value |-> <<>>]
    ELSE IF Len(chars) < 4 THEN [raised |-> "binascii.Error", value |-> <<>>]
    ELSE LET pads == Cardinality({i \in 3..4 : chars[i] = B64Pad})
             v    == B64Index(chars[1]) * 262144 + B64Index(chars[2]) * 4096
                     + B64Index(chars[3]) * 64 + B64Index(chars[4])
             out  == SubSeq(<<v \div 65536, (v \div 256) % 256, v % 256>>,
                            1, 3 - pads)
             rest == b64decode(SubSeq(chars, 5, Len(chars)))
         IN  IF rest.raised # "None" THEN rest
             ELSE [raised |-> "None", value |-> out \o rest.value]

\* to_dict, line 172: the text to send
\*   self.get_concatenated_text() if self.is_multipart() else self.get_text() or ""
ToDictText ==
    IF is_multipart THEN get_concatenated_text
    ELSE [raised |-> "None", value |-> IF get_text # <<>> THEN get_text ELSE <<>>]

\* to_dict, line 173: base64.b64encode(text.encode('latin1')).decode('ascii')
ToDictEncode(str) ==
    LET bytes == StrEncode(str, Latin1Size)
    IN  IF bytes.raised # "None" THEN bytes
        ELSE BytesDecode(b64encode(bytes.value), AsciiSize)

ReceivedPartsStored == LenParts

\* to_dict, line 189: len(self.parts) if self.is_multipart() else 1
ReceivedParts == IF is_multipart THEN LenParts ELSE 1

\* SMS.to_dict: the dict returned (its text and multi-part entries), or the
\* exception raised
to_dict ==
    LET txt == ToDictText
        enc == IF txt.raised # "None" THEN txt ELSE ToDictEncode(txt.value)
    IN  [raised |-> enc.raised,
         value  |-> [text           |-> enc.value,
                     is_multipart   |-> is_multipart,
                     total_parts    |-> total_parts,
                     received_parts |-> ReceivedParts]]

\* the server answers with the dict of the message, or fails if to_dict raises
ToDict ==
    LET d == to_dict
    IN  /\ wire' = IF d.raised = "None" THEN <<d.value>> ELSE <<>>
        /\ plain' = ToDictText.value
        /\ decoded' = <<>>
        /\ call' = [op |-> "to_dict", args |-> <<>>, raised |-> d.raised]
        /\ UNCHANGED <<smsVars, dbVars, storeVars, rpcVars, botVars>>

\* SMSGateRPCClient._decode_text:
\*   base64.b64decode(text.encode('ascii')).decode("ascii")
_decode_text(str) ==
    LET chars == StrEncode(str, AsciiSize)
        bytes == IF chars.raised # "None" THEN chars ELSE b64decode(chars.value)
    IN  IF bytes.raised # "None" THEN bytes
        ELSE BytesDecode(bytes.value, AsciiSize)

\* SMSGateRPCClient.get_sms / get_all_sms on a reply holding the dict:
\*   msg['text'] = self._decode_text(msg['text'])
get_sms ==
    /\ wire # <<>>
    /\ LET r == _decode_text(wire[1].text)
       IN  /\ decoded' = <<r>>
           /\ call' = [op |-> "get_sms", args |-> <<>>, raised |-> r.raised]
    /\ wire' = <<>>
    /\ UNCHANGED <<smsVars, plain, dbVars, storeVars, rpcVars, botVars>>

AddPartWire ==
    \E p \in 1..MaxWireParts, t \in WirePartTexts :
        add_part(p, t) /\ UNCHANGED replaced

InitWire ==
    /\ \E tx \in WireTexts, tp \in WireOptionalParts : __init__(tx, tp, <<>>)
    /\ NothingSent
    /\ _init_db
    /\ LocalTimeIsUtc
    /\ ClientInit
    /\ BotInit

NextWire == AddPartWire \/ ToDict \/ get_sms

\* a message is built, merged, serialised and decoded by the client
SpecWire == InitWire /\ [][NextWire]_vars

(***************************************************************************)
(* Part 3: the event store of server/database.py (table events): add_event,*)
(* update_event_status and get_events.  Every method opens a connection,   *)
(* runs one statement and commits, so a statement is one step; add_event   *)
(* evaluates its parameter tuple (datetime.now(), json.dumps) before the   *)
(* INSERT runs, and another process may run in between.                    *)
(* An Optional value is <<>> (None) or <<v>>.                              *)
(***************************************************************************)
\* most rows of table events
MaxEvents == 2
\* last value of the clock
MaxClock == 1
\* largest limit get_events is called with
MaxLimit == 2

\* class EventType
EventTypes == {"incoming_sms", "incoming_call", "outgoing_sms"}

\* class EventStatus
EventStatuses == {"pending", "processed", "failed", "error"}

\* sample modem identifiers
ModemIds == {"00", "01"}

\* sample bodies: a dict is the sequence of its <<key, value>> items
Bodies == { << <<"text", "hi">> >>,
            << <<"text", "yo">>, <<"flash", "no">> >> }

\* sample values of the error argument
Errors == {<<>>, <<"boom">>}

\* json.dumps of a dict of strings: the tokens of the JSON text
RECURSIVE JsonMembers(_)
JsonMembers(items) ==
    IF items = <<>> THEN <<>>
    ELSE <<items[1][1], ":", items[1][2]>>
         \o (IF Len(items) > 1 THEN <<",">> ELSE <<>>)
         \o JsonMembers(Tail(items))

json_dumps(d) == <<"{">> \o JsonMembers(d) \o <<"}">>

\* json.loads of such a text: a member takes four tokens, the last one three
json_loads(tokens) ==
    [i \in 1..((Len(tokens) - 1) \div 4) |->
        <<tokens[4 * i - 2], tokens[4 * i]>>]

\* datetime.datetime.now(): the local time of the host, without time zone
datetime_now == now + utcoffset

\* add_event, lines 98-105: the parameter tuple of the INSERT
EventParams(type, status, modem_id, body, error) ==
    [type      |-> type,
     status    |-> status,
     modem_id  |-> modem_id,
     timestamp |-> datetime_now,
     body      |-> json_dumps(body),
     error     |-> error]

EventRowPending(t, id) ==
    [id |-> id, type |-> t.type, status |-> "pending", modem_id |-> t.modem_id,
     timestamp |-> t.timestamp, body |-> t.body, error |-> t.error,
     created_at |-> now, updated_at |-> now]

\* add_event, lines 94-97 with the schema of lines 34-44: the row inserted
EventRow(t, id) ==
    [id |-> id, type |-> t.type, status |-> t.status, modem_id |-> t.modem_id,
     timestamp |-> t.timestamp, body |-> t.body, error |-> t.error,
     created_at |-> now, updated_at |-> now]

\* id INTEGER PRIMARY KEY AUTOINCREMENT; no row is ever deleted
NextEventId == Len(events) + 1

\* the arguments of an add_event call, as the caller supplied them
Supplied(type, status, modem_id, body, error) ==
    [type |-> type, status |-> status, modem_id |-> modem_id,
     body |-> body, error |-> error]

\* add_event, lines 94-107: INSERT, commit, return cursor.lastrowid
InsertEvent(p, t, supplied) ==
    /\ events' = Append(events, EventRow(t, NextEventId))
    /\ issued' = Append(issued, supplied)
    /\ db_call' = [op |-> "add_event", args |-> [process |-> p],
                   result |-> <<NextEventId>>]

\* the number of add_event calls whose INSERT has not run yet
Pending == Cardinality({p \in Procs : inflight[p] # <<>>})

\* Database.add_event with nothing running in between
AddEvent(p, type, status, modem_id, body, error) ==
    /\ inflight[p] = <<>>
    /\ Len(events) + Pending < MaxEvents
    /\ InsertEvent(p, EventParams(type, status, modem_id, body, error),
                   Supplied(type, status, modem_id, body, error))
    /\ UNCHANGED <<now, inflight>>
    /\ UNCHANGED <<smsVars, call, wireVars, storeVars, rpcVars, botVars>>

\* Database.add_event, first step: the parameters are evaluated
AddEventParams(p, type, status, modem_id, body, error) ==
    /\ inflight[p] = <<>>
    /\ Len(events) + Pending < MaxEvents
    /\ inflight' = [inflight EXCEPT ![p] =
           <<[params   |-> EventParams(type, status, modem_id, body, error),
              supplied |-> Supplied(type, status, modem_id, body, error)]>>]
    /\ UNCHANGED <<events, now, issued, db_call>>
    /\ UNCHANGED <<smsVars, call, wireVars, storeVars, rpcVars, botVars>>

\* Database.add_event, second step: the INSERT runs and the call returns
AddEventInsert(p) ==
    /\ inflight[p] # <<>>
    /\ InsertEvent(p, inflight[p][1].params, inflight[p][1].supplied)
    /\ inflight' = [inflight EXCEPT ![p] = <<>>]
    /\ UNCHANGED now
    /\ UNCHANGED <<smsVars, call, wireVars, storeVars, rpcVars, botVars>>

UpdateWhereAll(row, id) == TRUE

\* update_event_status, line 116: WHERE id = ?
UpdateWhere(row, id) == row.id = id

\* update_event_status, line 115:
\*   SET status = ?, error = ?, updated_at = CURRENT_TIMESTAMP
UpdateSet(row, status, error) ==
    [row EXCEPT !.status = status, !.error = error, !.updated_at = now]

\* Database.update_event_status
update_event_status(id, status, error) ==
    /\ events' = [i \in DOMAIN events |->
                     IF UpdateWhere(events[i], id)
                     THEN UpdateSet(events[i], status, error)
                     ELSE events[i]]
    /\ issued' = [i \in DOMAIN issued |->
                     IF i = id
                     THEN [issued[i] EXCEPT !.status = status, !.error = error]
                     ELSE issued[i]]
    /\ db_call' = [op |-> "update_event_status",
                   args |-> [id |-> id, status |-> status, error |-> error],
                   result |-> <<>>]
    /\ UNCHANGED <<now, inflight>>
    /\ UNCHANGED <<smsVars, call, wireVars, storeVars, rpcVars, botVars>>

\* `if modem_id:` and the like: None and the empty string do not filter
Truthy(opt) == opt # <<>> /\ opt[1] # ""

WhereEventsAny(row, modem_id, event_type, status) ==
    \/ ~Truthy(modem_id) /\ ~Truthy(event_type) /\ ~Truthy(status)
    \/ Truthy(modem_id) /\ row.modem_id = modem_id[1]
    \/ Truthy(event_type) /\ row.type = event_type[1]
    \/ Truthy(status) /\ row.status = status[1]

\* get_events, lines 127-138: WHERE 1=1 AND ... for each filter given
WhereEvents(row, modem_id, event_type, status) ==
    /\ Truthy(modem_id) => row.modem_id = modem_id[1]
    /\ Truthy(event_type) => row.type = event_type[1]
    /\ Truthy(status) => row.status = status[1]

\* get_events, line 140: ORDER BY timestamp DESC
OrderedByTimestamp(order) ==
    \A i, j \in DOMAIN order :
        i < j => events[order[i]].timestamp >= events[order[j]].timestamp

\* the orders ORDER BY may give the selected rows: rows of equal timestamp
\* come in any order
Orderings(ids) ==
    {order \in [1..Cardinality(ids) -> ids] :
        /\ \A i, j \in DOMAIN order : i # j => order[i] # order[j]
        /\ OrderedByTimestamp(order)}

\* get_events, line 140: LIMIT ? (for a limit that is not negative)
Limited(order, limit) ==
    SubSeq(order, 1, IF limit < Len(order) THEN limit ELSE Len(order))

\* get_events, lines 147-151: the row as a dict, its body parsed
EventDict(row) == [row EXCEPT !.body = json_loads(row.body)]

\* Database.get_events
get_events(modem_id, event_type, status, limit) ==
    /\ \E order \in Orderings({i \in DOMAIN events :
                     WhereEvents(events[i], modem_id, event_type, status)}) :
           db_call' = [op |-> "get_events",
                       args |-> [modem_id |-> modem_id, event_type |-> event_type,
                                 status |-> status, limit |-> limit],
                       result |-> [k \in DOMAIN Limited(order, limit) |->
                                      EventDict(events[Limited(order, limit)[k]])]]
    /\ UNCHANGED <<events, now, inflight, issued>>
    /\ UNCHANGED <<smsVars, call, wireVars, storeVars, rpcVars, botVars>>

\* time passes
Tick ==
    /\ now < MaxClock
    /\ now' = now + 1
    /\ UNCHANGED <<events, inflight, issued, db_call>>
    /\ UNCHANGED <<smsVars, call, wireVars, storeVars, rpcVars, botVars>>

\* the state of a process that holds a Database and no message
InitDB ==
    /\ __init__(<<>>, <<>>, <<>>)
    /\ NothingSent
    /\ _init_db
    /\ LocalTimeIsUtc
    /\ ClientInit
    /\ BotInit

\* an Optional drawn from a set
Opt(S) == {<<>>} \cup {<<v>> : v \in S}

\* ---- the status life cycle: one process adds events and updates them
StatusSamples ==
    { [type |-> "incoming_sms", modem_id |-> "00", body |-> << <<"text", "hi">> >>],
      [type |-> "outgoing_sms", modem_id |-> "01",
       body |-> << <<"text", "yo">>, <<"flash", "no">> >>] }

AddEventStatus ==
    \E a \in StatusSamples, st \in EventStatuses, e \in Errors :
        AddEvent("gateway", a.type, st, a.modem_id, a.body, e)

UpdateEventStatus ==
    \E id \in 1..(MaxEvents + 1), st \in EventStatuses, e \in Errors :
        update_event_status(id, st, e)

NextStatus == AddEventStatus \/ UpdateEventStatus

SpecStatus == InitDB /\ [][NextStatus]_vars

\* ---- queries: one process adds events and reads them back
QuerySamples ==
    { [type |-> "incoming_sms", status |-> "pending", modem_id |-> "00",
       body |-> << <<"text", "hi">> >>, error |-> <<>>],
      [type |-> "outgoing_sms", status |-> "pending", modem_id |-> "01",
       body |-> << <<"text", "yo">>, <<"flash", "no">> >>, error |-> <<>>],
      [type |-> "incoming_sms", status |-> "failed", modem_id |-> "01",
       body |-> << <<"text", "hi">> >>, error |-> <<"boom">>] }

AddEventQuery ==
    \E a \in QuerySamples :
        AddEvent("gateway", a.type, a.status, a.modem_id, a.body, a.error)

GetEvents ==
    \E m \in Opt({"", "01"}), t \in Opt({"incoming_sms"}),
       st \in Opt({"pending"}), limit \in 0..MaxLimit :
        get_events(m, t, st, limit)

NextQuery == AddEventQuery \/ GetEvents \/ Tick

SpecQuery == InitDB /\ [][NextQuery]_vars

\* ---- concurrent writers: two processes add events
AddEventConcurrent ==
    \E p \in Procs, a \in StatusSamples :
        \/ AddEventParams(p, a.type, "pending", a.modem_id, a.body, <<>>)
        \/ AddEventInsert(p)

NextConcurrent == AddEventConcurrent \/ Tick

SpecConcurrent == InitDB /\ [][NextConcurrent]_vars

(***************************************************************************)
(* Part 4: the modem state tracker of server/database.py (table            *)
(* modem_state): update_modem_state and get_modem_state.  A column value   *)
(* is an Optional: <<>> is NULL.  update_modem_state runs a SELECT and     *)
(* then an INSERT or an UPDATE on one connection; sqlite3 opens the        *)
(* transaction at the INSERT or UPDATE, so another process may write       *)
(* between the two statements.                                             *)
(***************************************************************************)
\* most update_modem_state calls of a behaviour
MaxUpdates == 3

\* the SQL NULL and python's None
NULL == <<>>

\* the telemetry columns of modem_state
TelemetryColumns ==
    {"balance", "currency", "network", "signal_strength", "last_balance_check",
     "last_network_check", "last_signal_check", "is_online", "last_online"}

\* all the columns of modem_state
ModemColumns ==
    {"modem_id"} \cup TelemetryColumns \cup {"created_at", "updated_at"}

ColumnDefaultNull(c) ==
    IF c \in {"created_at", "updated_at"} THEN <<now>> ELSE NULL

\* the DEFAULT of a column: is_online BOOLEAN DEFAULT 0, the two markers
\* DEFAULT CURRENT_TIMESTAMP (the time in UTC), NULL for the others
ColumnDefault(c) ==
    IF c = "is_online" THEN <<0>>
    ELSE IF c \in {"created_at", "updated_at"} THEN <<now>>
    ELSE NULL

\* **kwargs of a call that names no field
NoFields == [c \in {} |-> NULL]

\* sample **kwargs that name telemetry columns: a dict column -> value
ModemKwargs ==
    { NoFields,
      "balance" :> <<10>>,
      "network" :> <<"op">>,
      ("balance" :> <<20>>) @@ ("is_online" :> <<1>>) }

\* sample **kwargs with names outside the telemetry columns
OtherKwargs ==
    { "balance" :> <<10>>,
      "foo" :> <<1>>,
      ("balance" :> <<5>>) @@ ("foo" :> <<1>>),
      "created_at" :> <<9>> }

\* update_modem_state, lines 160-161:
\*   SELECT 1 FROM modem_state WHERE modem_id = ?; exists = fetchone() is not None
ModemExists(modem_id) == \E r \in modem_state : r.modem_id = <<modem_id>>

InsertedModemRowBare(modem_id, kwargs) ==
    [c \in ModemColumns |->
        IF c = "modem_id" THEN <<modem_id>> ELSE ColumnDefault(c)]

\* lines 165-171: the row of INSERT INTO modem_state (modem_id, k, ..)
InsertedModemRow(modem_id, kwargs) ==
    [c \in ModemColumns |->
        IF c = "modem_id" THEN <<modem_id>>
        ELSE IF c \in DOMAIN kwargs THEN kwargs[c]
        ELSE ColumnDefault(c)]

UpdatedModemRowReplace(row, kwargs) ==
    [c \in ModemColumns |->
        IF c = "updated_at" THEN <<now>>
        ELSE IF c \in DOMAIN kwargs THEN kwargs[c]
        ELSE IF c = "modem_id" THEN row[c]
        ELSE ColumnDefault(c)]

\* lines 174-177: the row after SET k = ?, .., updated_at = CURRENT_TIMESTAMP
\* (of two assignments to one column the last one counts)
UpdatedModemRow(row, kwargs) ==
    [c \in ModemColumns |->
        IF c = "updated_at" THEN <<now>>
        ELSE IF c \in DOMAIN kwargs THEN kwargs[c]
        ELSE row[c]]

\* lines 164-171: the INSERT fails for a name that is no column and for a
\* modem_id that already has a row (PRIMARY KEY); a failed statement is
\* rolled back when the connection scope is left
ModemInsert(table, modem_id, kwargs) ==
    IF ~(DOMAIN kwargs \subseteq ModemColumns)
    THEN [raised |-> "OperationalError", table |-> table]
    ELSE IF \E r \in table : r.modem_id = <<modem_id>>
    THEN [raised |-> "IntegrityError", table |-> table]
    ELSE [raised |-> "None",
          table |-> table \cup {InsertedModemRow(modem_id, kwargs)}]

\* lines 173-180: the UPDATE fails for a name that is no column and, with no
\* field named, for the text 'SET , updated_at = ..' (syntax error)
ModemUpdate(table, modem_id, kwargs) ==
    IF DOMAIN kwargs = {} \/ ~(DOMAIN kwargs \subseteq ModemColumns)
    THEN [raised |-> "OperationalError", table |-> table]
    ELSE [raised |-> "None",
          table |-> {IF r.modem_id = <<modem_id>>
                     THEN UpdatedModemRow(r, kwargs) ELSE r : r \in table}]

\* lines 163-182: the write chosen by the outcome of the SELECT, and commit
ModemWrite(p, modem_id, kwargs, exists) ==
    LET out == IF ~exists THEN ModemInsert(modem_state, modem_id, kwargs)
               ELSE ModemUpdate(modem_state, modem_id, kwargs)
    IN  /\ modem_state' = out.table
        /\ modem_log' = Append(modem_log, [modem_id |-> modem_id,
                                           kwargs |-> kwargs,
                                           raised |-> out.raised])
        /\ db_call' = [op |-> "update_modem_state",
                       args |-> [process |-> p, modem_id |-> modem_id,
                                 kwargs |-> kwargs],
                       raised |-> out.raised, result |-> <<>>]

\* the update_modem_state calls whose SELECT has run and whose write has not
Upserting == Cardinality({p \in Procs : upsert[p] # <<>>})

\* Database.update_modem_state with nothing running in between
update_modem_state(p, modem_id, kwargs) ==
    /\ upsert[p] = <<>>
    /\ Len(modem_log) + Upserting < MaxUpdates
    /\ ModemWrite(p, modem_id, kwargs, ModemExists(modem_id))
    /\ UNCHANGED <<upsert, financial_activity, utcoffset>>
    /\ UNCHANGED <<events, now, inflight, issued>>
    /\ UNCHANGED <<smsVars, call, wireVars, rpcVars, botVars>>

\* Database.update_modem_state, first step: the SELECT of lines 160-161
UpdateModemSelect(p, modem_id, kwargs) ==
    /\ upsert[p] = <<>>
    /\ Len(modem_log) + Upserting < MaxUpdates
    /\ upsert' = [upsert EXCEPT ![p] =
           <<[modem_id |-> modem_id, kwargs |-> kwargs,
              exists |-> ModemExists(modem_id)]>>]
    /\ UNCHANGED <<modem_state, modem_log, financial_activity, utcoffset>>
    /\ UNCHANGED dbVars
    /\ UNCHANGED <<smsVars, call, wireVars, rpcVars, botVars>>

\* Database.update_modem_state, second step: the write of lines 163-182
UpdateModemWrite(p) ==
    /\ upsert[p] # <<>>
    /\ ModemWrite(p, upsert[p][1].modem_id, upsert[p][1].kwargs,
                  upsert[p][1].exists)
    /\ upsert' = [upsert EXCEPT ![p] = <<>>]
    /\ UNCHANGED <<financial_activity, utcoffset>>
    /\ UNCHANGED <<events, now, inflight, issued>>
    /\ UNCHANGED <<smsVars, call, wireVars, rpcVars, botVars>>

\* Database.get_modem_state: the first row of the SELECT as a dict, or None
get_modem_state(modem_id) ==
    /\ \E result \in (IF ModemExists(modem_id)
                      THEN {<<r>> : r \in {x \in modem_state :
                                               x.modem_id = <<modem_id>>}}
                      ELSE {NULL}) :
           db_call' = [op |-> "get_modem_state",
                       args |-> [modem_id |-> modem_id], result |-> result]
    /\ UNCHANGED <<events, now, inflight, issued>>
    /\ UNCHANGED storeVars
    /\ UNCHANGED <<smsVars, call, wireVars, rpcVars, botVars>>

\* ---- telemetry: one process updates the state of two modems and reads it
UpdateModemState ==
    \E m \in ModemIds, kw \in ModemKwargs : update_modem_state("gateway", m, kw)

GetModemState == \E m \in ModemIds : get_modem_state(m)

NextModem == UpdateModemState \/ GetModemState \/ Tick

SpecModem == InitDB /\ [][NextModem]_vars

\* ---- field names: one process updates one modem under any sample name
UpdateModemStateNames ==
    \E kw \in OtherKwargs : update_modem_state("gateway", "00", kw)

GetModemStateNames == get_modem_state("00")

NextModemNames == UpdateModemStateNames \/ GetModemStateNames

SpecModemNames == InitDB /\ [][NextModemNames]_vars

\* ---- concurrent telemetry: two processes update the state of one modem
UpdateModemConcurrent ==
    \E p \in Procs :
        \/ \E kw \in ModemKwargs \ {NoFields} : UpdateModemSelect(p, "00", kw)
        \/ UpdateModemWrite(p)

NextModemConcurrent == UpdateModemConcurrent

SpecModemConcurrent == InitDB /\ [][NextModemConcurrent]_vars

(***************************************************************************)
(* Part 5: the financial ledger of server/database.py (table               *)
(* financial_activity): add_financial_activity and                         *)
(* get_financial_activity_period.  A tick of the clock is half a day.      *)
(* add_financial_activity stamps a row with datetime.datetime.now(), the   *)
(* local time of the host; the query compares that column with SQLite's    *)
(* datetime('now', ..), which is UTC.                                      *)
(***************************************************************************)
\* most rows of table financial_activity
MaxLedger == 2
\* last value of the clock in the runs of the ledger
MaxLedgerClock == 3
\* longest period asked for, in days
MaxDays == 2

\* ticks of the clock in one day
DayLength == 2

\* sample time zones of the host: UTC-12, UTC, UTC+12 (in ticks)
UtcOffsets == {-1, 0, 1}

\* sample arguments of add_financial_activity
LedgerSamples ==
    { [modem_id |-> "00", event_type |-> "sms_sent", amount |-> <<5>>,
       currency |-> <<"EUR">>, details |-> NULL],
      [modem_id |-> "01", event_type |-> "ussd_balance_check", amount |-> NULL,
       currency |-> NULL, details |-> <<"balance">>] }

\* add_financial_activity, lines 200-204 with the schema of lines 67-76: the
\* row inserted; id is AUTOINCREMENT, created_at DEFAULT CURRENT_TIMESTAMP
FinancialRow(id, a) ==
    [id |-> id, modem_id |-> a.modem_id, event_type |-> a.event_type,
     amount |-> a.amount, currency |-> a.currency, timestamp |-> datetime_now,
     details |-> a.details, created_at |-> now]

InsertFinancialOverLast(rows, row) ==
    IF rows = <<>> THEN <<row>> ELSE [rows EXCEPT ![Len(rows)] = row]

\* INSERT INTO financial_activity: one more row
InsertFinancial(rows, row) == Append(rows, row)

\* Database.add_financial_activity
add_financial_activity(a) ==
    /\ Len(financial_activity) < MaxLedger
    /\ financial_activity' =
           InsertFinancial(financial_activity,
                           FinancialRow(Len(financial_activity) + 1, a))
    /\ db_call' = [op |-> "add_financial_activity", args |-> a, at |-> now,
                   result |-> <<>>]
    /\ UNCHANGED <<modem_state, modem_log, upsert, utcoffset>>
    /\ UNCHANGED <<events, now, inflight, issued>>
    /\ UNCHANGED <<smsVars, call, wireVars, rpcVars, botVars>>

\* get_financial_activity_period, line 214: datetime('now', '-N days')
PeriodStart(days) == now - days * DayLength

\* lines 213-214: WHERE modem_id = ? AND timestamp >= datetime('now', ?)
WhereFinancial(row, modem_id, days) ==
    /\ row.modem_id = modem_id
    /\ row.timestamp >= PeriodStart(days)

\* line 215: ORDER BY timestamp DESC; rows of equal timestamp in any order
FinancialOrderings(ids) ==
    {order \in [1..Cardinality(ids) -> ids] :
        /\ \A i, j \in DOMAIN order : i # j => order[i] # order[j]
        /\ \A i, j \in DOMAIN order :
               i < j => financial_activity[order[i]].timestamp
                            >= financial_activity[order[j]].timestamp}

\* Database.get_financial_activity_period
get_financial_activity_period(modem_id, days) ==
    /\ \E order \in FinancialOrderings({i \in DOMAIN financial_activity :
               WhereFinancial(financial_activity[i], modem_id, days)}) :
           db_call' = [op |-> "get_financial_activity_period",
                       args |-> [modem_id |-> modem_id, days |-> days],
                       at |-> now,
                       result |-> [k \in DOMAIN order |->
                                      financial_activity[order[k]]]]
    /\ UNCHANGED <<events, now, inflight, issued>>
    /\ UNCHANGED storeVars
    /\ UNCHANGED <<smsVars, call, wireVars, rpcVars, botVars>>

\* ---- the ledger over time: one process on a host of some time zone
AddFinancialActivity == \E a \in LedgerSamples : add_financial_activity(a)

GetFinancialActivityPeriod ==
    \E m \in ModemIds, days \in 1..MaxDays :
        get_financial_activity_period(m, days)

\* time passes
LedgerTick ==
    /\ now < MaxLedgerClock
    /\ now' = now + 1
    /\ UNCHANGED <<events, inflight, issued, db_call>>
    /\ UNCHANGED <<smsVars, call, wireVars, storeVars, rpcVars, botVars>>

InitLedger ==
    /\ __init__(<<>>, <<>>, <<>>)
    /\ NothingSent
    /\ _init_db
    /\ utcoffset \in UtcOffsets
    /\ ClientInit
    /\ BotInit

NextLedger == AddFinancialActivity \/ GetFinancialActivityPeriod \/ LedgerTick

SpecLedger == InitLedger /\ [][NextLedger]_vars

\* ---- the whole storage layer: every method of Database, one process
AddEventStore ==
    AddEvent("gateway", "outgoing_sms", "pending", "00",
             << <<"text", "hi">> >>, <<>>)

UpdateEventStatusStore == update_event_status(1, "processed", <<>>)

GetEventsStore == get_events(<<>>, <<>>, <<>>, 1)

UpdateModemStateStore ==
    update_modem_state("gateway", "00", "balance" :> <<10>>)

GetModemStateStore == get_modem_state("00")

GetFinancialActivityPeriodStore ==
    \E m \in ModemIds : get_financial_activity_period(m, 1)

NextStore ==
    \/ AddEventStore
    \/ UpdateEventStatusStore
    \/ GetEventsStore
    \/ UpdateModemStateStore
    \/ GetModemStateStore
    \/ AddFinancialActivity
    \/ GetFinancialActivityPeriodStore

SpecStore == InitDB /\ [][NextStore]_vars

(***************************************************************************)
(* Part 6: SMSGateRPCClient.send_sms of client/smsgate_rpcclient.py: the   *)
(* send RPC and the delivery poll loop.  A step is one RPC with its reply  *)
(* (a value or an exception, as the gateway and the transport decide) or   *)
(* one time.sleep.  The booleans of python are the integers 0 and 1.       *)
(***************************************************************************)
\* most polls of one send_sms call
MaxPolls == 4

\* time.sleep(3)
SleepInterval == 3

\* sample durations of one RPC
RpcLatency == {0, 1}

\* self.api_token, as the constructor set it
api_token == "token"

\* sample arguments of send_sms
SendRequests ==
    { [sender |-> "+100", recipient |-> "+200", text |-> "hi",
       flash |-> 0, wait_for_delivery |-> 1],
      [sender |-> "+100", recipient |-> "+300", text |-> "yo",
       flash |-> 1, wait_for_delivery |-> 0] }

\* sample message ids the gateway answers the send RPC with
SmsIds == {"id-a", "id-b"}

\* sample answers of the gateway to get_delivery_status: False, True, 2
PollAnswers == {0, 1, 2}

\* the outcomes of an RPC whose normal replies are the values in S
Replies(S, none) ==
    {[raised |-> "None", value |-> v] : v \in S}
        \cup {[raised |-> "Fault", value |-> none]}

FalsyNever(v) == FALSE

\* not v
Falsy(v) == v = 0

\* the RPCs of the call that polled, in order
PollsMade == SelectSeq(rpc_log, LAMBDA e : e.method = "get_delivery_status")

\* sms_id = self.client.send_sms(..): the local variable of send_sms
sms_id == rpc_log[1].reply.value

LoopAgainInverted(answer) == ~Falsy(answer)

LoopAgainTwice(answer) == Falsy(answer) /\ Len(PollsMade) < 2

\* while not self.client.get_delivery_status(self.api_token, sms_id):
LoopAgain(answer) == Falsy(answer)

AfterPollRetry(reply) ==
    IF reply.raised # "None" \/ LoopAgain(reply.value) THEN "sleep" ELSE "done"

AfterPollBusy(reply) ==
    IF reply.raised # "None" THEN "raised"
    ELSE IF LoopAgain(reply.value) THEN "poll"
    ELSE "done"

\* where send_sms goes on after one poll: there is no try around the loop
\* condition, so an exception leaves send_sms; a falsy answer enters the body
\* (line 122), a truthy one falls through to the return of line 124
AfterPoll(reply) ==
    IF reply.raised # "None" THEN "raised"
    ELSE IF LoopAgain(reply.value) THEN "sleep"
    ELSE "done"

\* one entry of the log: an RPC or a sleep, when it began and when it ended
LogEntry(method, args, reply, duration) ==
    [method |-> method, args |-> args, reply |-> reply,
     issued |-> clock, answered |-> clock + duration]

\* send_sms, lines 118-124 up to the first poll: the send RPC; an exception
\* ends the call, without confirmation the call returns the id at once
send_sms(req) ==
    /\ pc \in {"idle", "done", "raised"}
    /\ \E reply \in Replies(SmsIds, ""), d \in RpcLatency :
           /\ rpc_log' = << [method |-> "send_sms",
                             args |-> <<api_token, req.sender, req.recipient,
                                        req.text, req.flash>>,
                             reply |-> reply,
                             issued |-> 0, answered |-> d] >>
           /\ clock' = d
           /\ pc' = IF reply.raised # "None" THEN "raised"
                    ELSE IF ~Falsy(req.wait_for_delivery) THEN "poll"
                    ELSE "done"
           /\ returned' = IF reply.raised = "None" /\ Falsy(req.wait_for_delivery)
                          THEN <<reply.value>> ELSE <<>>
    /\ request' = <<req>>
    /\ UNCHANGED <<smsVars, call, wireVars, dbVars, storeVars, botVars>>

\* lines 120-124: one evaluation of the loop condition: the poll RPC; an
\* exception ends the call, a truthy answer ends the loop and the call
\* returns sms_id
Poll ==
    /\ pc = "poll"
    /\ Len(PollsMade) < MaxPolls
    /\ \E reply \in Replies(PollAnswers, 0), d \in RpcLatency :
           /\ rpc_log' = Append(rpc_log,
                  LogEntry("get_delivery_status", <<api_token, sms_id>>, reply, d))
           /\ clock' = clock + d
           /\ pc' = AfterPoll(reply)
           /\ returned' = IF reply.raised = "None" /\ ~LoopAgain(reply.value)
                          THEN <<sms_id>> ELSE <<>>
    /\ UNCHANGED request
    /\ UNCHANGED <<smsVars, call, wireVars, dbVars, storeVars, botVars>>

\* line 122: the body of the loop, time.sleep(3)
Sleep ==
    /\ pc = "sleep"
    /\ rpc_log' = Append(rpc_log,
           LogEntry("sleep", <<SleepInterval>>,
                    [raised |-> "None", value |-> 0], SleepInterval))
    /\ clock' = clock + SleepInterval
    /\ pc' = "poll"
    /\ UNCHANGED <<request, returned>>
    /\ UNCHANGED <<smsVars, call, wireVars, dbVars, storeVars, botVars>>

SendSms == \E req \in SendRequests : send_sms(req)

\* the state of a process that holds a client and nothing else
InitClient == InitDB

NextClient == SendSms \/ Poll \/ Sleep

SpecClient == InitClient /\ [][NextClient]_vars

\* the thread of the caller keeps running: a sleep ends and an RPC that was
\* issued is answered or fails
SpecClientLive == SpecClient /\ WF_vars(Poll) /\ WF_vars(Sleep)

(***************************************************************************)
(* Part 7: the other methods of SMSGateRPCClient: each is one RPC of the   *)
(* ServerProxy, whose reply the method returns as it is, picks a part of,  *)
(* or decodes message by message.  The log of a call begins with the call. *)
(***************************************************************************)
\* most messages in one reply
MaxInbox == 2

\* the states in which the client's thread is not inside a call
NotCalling == {"idle", "done", "raised"}

\* sample texts of stored messages: 'A', Latin-1 e-acute, and 'QQ==', a text
\* that is itself the base64 form of another
InboxTexts == {<<65>>, <<233>>, <<81, 81, 61, 61>>}

\* the dict the server sends for a message with this text (SMS.to_dict)
InboxMessage(tx) ==
    [id |-> tx, sender |-> "+700", text |-> ToDictEncode(tx).value,
     is_multipart |-> FALSE]

\* sample replies of get_sms, get_all_sms and read_stored_sms
InboxReplies ==
    UNION {[1..n -> {InboxMessage(tx) : tx \in InboxTexts}] : n \in 0..MaxInbox}

\* sample phone numbers and USSD codes
PhoneNumbers == {"", "+100"}
UssdCodes == {"*100#", "*102#"}

\* sample replies of get_stats: (status, stats by modem)
StatsReplies == { <<"OK", [m \in {"00"} |-> [balance |-> 10]]>>,
                  <<"OK", [m \in {} |-> [balance |-> 0]]>> }

\* sample replies of send_ussd and get_health_state: (status, message)
UssdReplies == { <<"OK", "Balance: 5">>, <<"ERROR", "timeout">> }
HealthReplies == { <<"OK", "fine">>, <<"WARNING", "low balance">> }

\* what a method does with the outcome r of its last statement: it returns
\* the value or lets the exception through
Finish(r) ==
    /\ pc' = IF r.raised # "None" THEN "raised" ELSE "done"
    /\ returned' = IF r.raised # "None" THEN <<>> ELSE <<r.value>>

\* self.client.<method>(*args): the only RPC of a call that begins now
Call(method, args, reply, d) ==
    /\ pc \in NotCalling
    /\ rpc_log' = << [method |-> method, args |-> args, reply |-> reply,
                      issued |-> 0, answered |-> d] >>
    /\ clock' = d
    /\ request' = << [method |-> method] >>
    /\ UNCHANGED <<smsVars, call, wireVars, dbVars, storeVars, botVars>>

DecodeMessageTwice(msg) ==
    LET r == _decode_text(msg.text)
        q == IF r.raised # "None" THEN r ELSE _decode_text(r.value)
    IN  [raised |-> q.raised, value |-> [msg EXCEPT !.text = q.value]]

\* msg['text'] = self._decode_text(msg['text'])
DecodeMessage(msg) ==
    LET r == _decode_text(msg.text)
    IN  [raised |-> r.raised, value |-> [msg EXCEPT !.text = r.value]]

\* for msg in messages: msg['text'] = ...; return messages: the loop stops
\* at the first message whose text does not decode
RECURSIVE DecodeMessages(_)
DecodeMessages(messages) ==
    IF messages = <<>> THEN [raised |-> "None", value |-> <<>>]
    ELSE LET first == DecodeMessage(Head(messages))
             rest  == DecodeMessages(Tail(messages))
         IN  IF first.raised # "None" THEN [raised |-> first.raised, value |-> <<>>]
             ELSE IF rest.raised # "None" THEN rest
             ELSE [raised |-> "None", value |-> <<first.value>> \o rest.value]

\* what a method that decodes makes of the reply of its RPC
Decoded(reply) ==
    IF reply.raised # "None" THEN reply ELSE DecodeMessages(reply.value)

ReturnDecoded(reply) == Finish(Decoded(reply))

\* return self.client.read_stored_sms(self.api_token)
ReturnAsIs(reply) == Finish(reply)

\* SMSGateRPCClient.get_stats: result[1] of the reply
get_stats ==
    \E reply \in Replies(StatsReplies, <<>>), d \in RpcLatency :
        /\ Call("get_stats", <<api_token>>, reply, d)
        /\ Finish(IF reply.raised # "None" THEN reply
                  ELSE [raised |-> "None", value |-> reply.value[2]])

\* SMSGateRPCClient.get_sms(phone_number)
get_sms_for(number) ==
    \E reply \in Replies(InboxReplies, <<>>), d \in RpcLatency :
        /\ Call("get_sms", <<api_token, number>>, reply, d)
        /\ ReturnDecoded(reply)

\* SMSGateRPCClient.get_all_sms
get_all_sms ==
    \E reply \in Replies(InboxReplies, <<>>), d \in RpcLatency :
        /\ Call("get_all_sms", <<api_token>>, reply, d)
        /\ ReturnDecoded(reply)

\* SMSGateRPCClient.read_stored_sms
read_stored_sms ==
    \E reply \in Replies(InboxReplies, <<>>), d \in RpcLatency :
        /\ Call("read_stored_sms", <<api_token>>, reply, d)
        /\ ReturnAsIs(reply)

\* SMSGateRPCClient.send_ussd(sender, ussd_code)
send_ussd(sender, code) ==
    \E reply \in Replies(UssdReplies, <<>>), d \in RpcLatency :
        /\ Call("send_ussd", <<api_token, sender, code>>, reply, d)
        /\ Finish(reply)

\* SMSGateRPCClient.get_delivery_status(sms_id), called by itself
get_delivery_status(id) ==
    \E reply \in Replies(PollAnswers, 0), d \in RpcLatency :
        /\ Call("get_delivery_status", <<api_token, id>>, reply, d)
        /\ Finish(reply)

get_health_state_bare ==
    \E reply \in Replies(HealthReplies, <<>>), d \in RpcLatency :
        /\ Call("get_health_state", <<>>, reply, d)
        /\ Finish(reply)

\* SMSGateRPCClient.get_health_state
get_health_state ==
    \E reply \in Replies(HealthReplies, <<>>), d \in RpcLatency :
        /\ Call("get_health_state", <<api_token>>, reply, d)
        /\ Finish(reply)

\* SMSGateRPCClient.ping
ping ==
    \E reply \in Replies({"OK"}, ""), d \in RpcLatency :
        /\ Call("ping", <<>>, reply, d)
        /\ Finish(reply)

GetSms == \E number \in PhoneNumbers : get_sms_for(number)

SendUssd == \E code \in UssdCodes : send_ussd("+100", code)

GetDeliveryStatus == \E id \in SmsIds : get_delivery_status(id)

\* every method of the client, the steps of send_sms among them
NextRpc ==
    \/ SendSms \/ Poll \/ Sleep
    \/ get_stats \/ GetSms \/ get_all_sms \/ read_stored_sms
    \/ SendUssd \/ GetDeliveryStatus \/ get_health_state \/ ping

SpecRpc == InitClient /\ [][NextRpc]_vars

(***************************************************************************)
(* Part 8: the chat bot of client/smsgate-telegram-bot.py.  A step is one  *)
(* update (a command, a text message that is not a command, or a press of  *)
(* an inline button) sent by a user in a private chat and handled by the   *)
(* first handler of setup_handlers that takes it, or one round of the      *)
(* background SMS checker.  A conversation belongs to one user; a callback *)
(* that returns None leaves its state alone, one that returns END ends it, *)
(* and any other value becomes the state, known to the handler or not.     *)
(***************************************************************************)
\* PHONE_NUMBER, USSD_CODE, SMS_RECIPIENT, SMS_TEXT, SMS_FLASH = range(5)
PHONE_NUMBER == 0
USSD_CODE == 1
SMS_RECIPIENT == 2
SMS_TEXT == 3
SMS_FLASH == 4

\* ConversationHandler.END
END == -1

\* the commands with a CommandHandler of their own
PlainCommands ==
    {"start", "help", "status", "get_sms", "get_all_sms", "read_stored_sms", "me"}

\* sample text messages and the data of the two inline buttons
BotTexts == {"+100", "*100#"}
CallbackData == {"flash_yes", "flash_no"}

\* the updates a user can send
Updates ==
    {[kind |-> "command", data |-> c] : c \in PlainCommands \cup {"ussd", "sms", "cancel"}}
        \cup {[kind |-> "text", data |-> t] : t \in BotTexts}
        \cup {[kind |-> "callback", data |-> c] : c \in CallbackData}

\* the outcomes of a call of the RPC client inside a callback
BotRpcOutcomes == {"None", "Fault"}

\* ussd_handler: its entry command and, by state, the kind of update taken
\* and the callback
ussd_handler ==
    [entry  |-> "ussd",
     states |-> (PHONE_NUMBER :> [kind |-> "text", callback |-> "phone_number"])
             @@ (USSD_CODE :> [kind |-> "text", callback |-> "ussd_code"])]

\* sms_handler
sms_handler ==
    [entry  |-> "sms",
     states |-> (PHONE_NUMBER :> [kind |-> "text", callback |-> "phone_number"])
             @@ (SMS_RECIPIENT :> [kind |-> "text", callback |-> "sms_recipient"])
             @@ (SMS_TEXT :> [kind |-> "text", callback |-> "sms_text"])
             @@ (SMS_FLASH :> [kind |-> "callback", callback |-> "sms_flash"])]

\* the conversation handlers in the order they were added
ConversationHandlers == ("ussd" :> ussd_handler) @@ ("sms" :> sms_handler)

\* ConversationHandler.check_update for user u: the callback that takes the
\* update, or "none": without a conversation the entry point only, within
\* one the handlers of the state and then the fallback /cancel
CheckUpdate(h, u, upd) ==
    LET st == conversations[h][u]
        H  == ConversationHandlers[h]
    IN  IF st = <<>>
        THEN IF upd.kind = "command" /\ upd.data = H.entry THEN H.entry ELSE "none"
        ELSE IF st[1] \in DOMAIN H.states /\ H.states[st[1]].kind = upd.kind
             THEN H.states[st[1]].callback
        ELSE IF upd.kind = "command" /\ upd.data = "cancel" THEN "cancel"
        ELSE "none"

\* the handler of group 0 that takes the update: the first, in the order of
\* setup_handlers, whose check accepts it
Dispatch(u, upd) ==
    IF upd.kind = "command" /\ upd.data \in PlainCommands
    THEN [handler |-> "command", callback |-> upd.data]
    ELSE IF CheckUpdate("ussd", u, upd) # "none"
    THEN [handler |-> "ussd", callback |-> CheckUpdate("ussd", u, upd)]
    ELSE IF CheckUpdate("sms", u, upd) # "none"
    THEN [handler |-> "sms", callback |-> CheckUpdate("sms", u, upd)]
    ELSE [handler |-> "none", callback |-> "none"]

check_auth_open(u) == TRUE

\* SMSGateTelegramBot.check_auth
check_auth(u) == u \in allowed_users

\* what a callback did: the value it returned (<<>>: None), user_data after
\* it and the calls of the RPC client it made
Outcome(state, data, rpcs) == [state |-> state, data |-> data, rpcs |-> rpcs]

\* one call self.rpc_client.<method>(*args), inside try/except Exception
RpcCall(method, args, out) ==
    << [method |-> method, args |-> args, raised |-> out] >>

\* context.user_data[k] = v and context.user_data.get(k)
Store(d, k, v) == (k :> v) @@ d
Get(d, k) == IF k \in DOMAIN d THEN <<d[k]>> ELSE <<>>

\* start, help and me: a reply and nothing else
start(u) == Outcome(<<>>, user_data[u], <<>>)
help(u) == Outcome(<<>>, user_data[u], <<>>)
me(u) == Outcome(<<>>, user_data[u], <<>>)

\* status, get_sms, get_all_sms, read_stored_sms: check_auth, then one call
status(u, out) ==
    IF ~check_auth(u) THEN Outcome(<<>>, user_data[u], <<>>)
    ELSE Outcome(<<>>, user_data[u], RpcCall("get_stats", <<>>, out))

bot_get_sms(u, out) ==
    IF ~check_auth(u) THEN Outcome(<<>>, user_data[u], <<>>)
    ELSE Outcome(<<>>, user_data[u], RpcCall("get_sms", <<>>, out))

bot_get_all_sms(u, out) ==
    IF ~check_auth(u) THEN Outcome(<<>>, user_data[u], <<>>)
    ELSE Outcome(<<>>, user_data[u], RpcCall("get_all_sms", <<>>, out))

bot_read_stored_sms(u, out) ==
    IF ~check_auth(u) THEN Outcome(<<>>, user_data[u], <<>>)
    ELSE Outcome(<<>>, user_data[u], RpcCall("read_stored_sms", <<>>, out))

\* ussd and sms, the entry points: check_auth, then return PHONE_NUMBER
ussd(u) ==
    IF ~check_auth(u) THEN Outcome(<<>>, user_data[u], <<>>)
    ELSE Outcome(<<PHONE_NUMBER>>, user_data[u], <<>>)

sms(u) ==
    IF ~check_auth(u) THEN Outcome(<<>>, user_data[u], <<>>)
    ELSE Outcome(<<PHONE_NUMBER>>, user_data[u], <<>>)

\* phone_number, the step of both conversations
phone_number(u, msg) ==
    LET d == Store(user_data[u], "phone_number", msg)
    IN  IF Truthy(Get(d, "ussd_code"))
        THEN Outcome(<<USSD_CODE>>, d, <<>>)
        ELSE Outcome(<<SMS_RECIPIENT>>, d, <<>>)

\* ussd_code: a missing key of user_data raises inside the try as well
ussd_code(u, msg, out) ==
    Outcome(<<END>>, user_data[u],
            IF "phone_number" \in DOMAIN user_data[u]
            THEN RpcCall("send_ussd", <<user_data[u]["phone_number"], msg>>, out)
            ELSE <<>>)

sms_recipient(u, msg) ==
    Outcome(<<SMS_TEXT>>, Store(user_data[u], "sms_recipient", msg), <<>>)

sms_text(u, msg) ==
    Outcome(<<SMS_FLASH>>, Store(user_data[u], "sms_text", msg), <<>>)

\* sms_flash: flash = query.data == "flash_yes"
sms_flash(u, data, out) ==
    LET d == user_data[u]
    IN  Outcome(<<END>>, d,
            IF {"phone_number", "sms_recipient", "sms_text"} \subseteq DOMAIN d
            THEN RpcCall("send_sms",
                         <<d["phone_number"], d["sms_recipient"], d["sms_text"],
                           IF data = "flash_yes" THEN 1 ELSE 0>>, out)
            ELSE <<>>)

cancel(u) ==
    IF ~check_auth(u) THEN Outcome(<<>>, user_data[u], <<>>)
    ELSE Outcome(<<END>>, user_data[u], <<>>)

\* the callback named cb, run for an update of user u
Callback(cb, u, upd, out) ==
    CASE cb = "start" -> start(u)
      [] cb = "help" -> help(u)
      [] cb = "me" -> me(u)
      [] cb = "status" -> status(u, out)
      [] cb = "get_sms" -> bot_get_sms(u, out)
      [] cb = "get_all_sms" -> bot_get_all_sms(u, out)
      [] cb = "read_stored_sms" -> bot_read_stored_sms(u, out)
      [] cb = "ussd" -> ussd(u)
      [] cb = "sms" -> sms(u)
      [] cb = "phone_number" -> phone_number(u, upd.data)
      [] cb = "ussd_code" -> ussd_code(u, upd.data, out)
      [] cb = "sms_recipient" -> sms_recipient(u, upd.data)
      [] cb = "sms_text" -> sms_text(u, upd.data)
      [] cb = "sms_flash" -> sms_flash(u, upd.data, out)
      [] cb = "cancel" -> cancel(u)
      [] OTHER -> Outcome(<<>>, user_data[u], <<>>)

\* the state of a conversation after a callback returned ret
NewState(old, ret) ==
    IF ret = <<>> THEN old ELSE IF ret[1] = END THEN <<>> ELSE ret

\* the application handles one update of user u
HandleUpdate(u, upd) ==
    \E out \in BotRpcOutcomes :
        LET d == Dispatch(u, upd)
            r == Callback(d.callback, u, upd, out)
        IN  /\ conversations' =
                   IF d.handler \in DOMAIN ConversationHandlers
                   THEN [conversations EXCEPT
                             ![d.handler][u] = NewState(@, r.state)]
                   ELSE conversations
            /\ user_data' = [user_data EXCEPT ![u] = r.data]
            /\ bot_update' = [user |-> u, kind |-> upd.kind, data |-> upd.data,
                              callback |-> d.callback, rpcs |-> r.rpcs]
            /\ UNCHANGED <<smsVars, call, wireVars, dbVars, storeVars, rpcVars>>

ReceiveUpdate == \E u \in Users, upd \in Updates : HandleUpdate(u, upd)

\* check_new_sms: one round of the background task, started by no update
check_new_sms ==
    \E out \in BotRpcOutcomes :
        /\ bot_update' = [user |-> 0, kind |-> "timer", data |-> "",
                          callback |-> "check_new_sms",
                          rpcs |-> RpcCall("get_all_sms", <<>>, out)]
        /\ UNCHANGED <<conversations, user_data>>
        /\ UNCHANGED <<smsVars, call, wireVars, dbVars, storeVars, rpcVars>>

InitBot == InitDB

NextBot == ReceiveUpdate \/ check_new_sms

SpecBot == InitBot /\ [][NextBot]_vars

\* ---------------------------------------------------------- the properties
\* the total the message was declared with at construction
Declared == InitTotalParts(ctor.total_parts)

\* the texts f[lo], ..., f[hi] one after the other
RECURSIVE InOrder(_, _, _)
InOrder(f, lo, hi) == IF hi < lo THEN <<>> ELSE InOrder(f, lo, hi - 1) \o f[hi]

\* add_part has returned normally for every index 1..Declared and no other
AllSubmitted == DOMAIN submitted = 1..Declared

\* the message was built from part 1 of Declared >= 2 parts and add_part has
\* returned normally for the indices 2..Declared and no other
MergedIntoFirst ==
    /\ ctor.part_number = <<1>>
    /\ ctor.total_parts # <<>>
    /\ Declared >= 2
    /\ DOMAIN submitted = 2..Declared

\* C1: once add_part has been called for every index 1..N of a message
\* declared with total N, whatever the order of the calls, is_part_complete()
\* is true and get_concatenated_text() is the part texts in index order 1..N.
C1_OrderIndependentReassembly ==
    AllSubmitted =>
        /\ is_part_complete
        /\ get_concatenated_text =
               [raised |-> "None", value |-> InOrder(submitted, 1, Declared)]

C1_Witness ==
    /\ Declared = 3
    /\ AllSubmitted
    /\ submitted[1] = <<65>> /\ submitted[2] = <<66>> /\ submitted[3] = <<66>>
    /\ call.args = <<1>>
    /\ get_concatenated_text.value = <<65, 66, 66>>

\* C2: a message constructed from part 1 of N parts, with parts 2..N merged
\* into it by add_part, is multipart, has total_parts = N, stores N parts, is
\* complete and concatenates to the full original text.
C2_MergeIntoFirstPart ==
    MergedIntoFirst =>
        /\ is_multipart
        /\ total_parts = Declared
        /\ LenParts = Declared
        /\ is_part_complete
        /\ get_concatenated_text =
               [raised |-> "None",
                value |-> ctor.text \o InOrder(submitted, 2, Declared)]

\* C3: after all parts have been merged into the canonical message, get_text()
\* is the full concatenated text of all parts.
C3_TextIsFullText ==
    /\ MergedIntoFirst =>
           get_text = ctor.text \o InOrder(submitted, 2, Declared)
    /\ (AllSubmitted /\ Declared >= 2) =>
           get_text = InOrder(submitted, 1, Declared)

\* C4 as stated: is_part_complete() is false whenever fewer than total_parts
\* distinct part indices have been stored, and true otherwise.
C4_CompleteIffAllStored ==
    is_part_complete <=> ~(Cardinality(DOMAIN submitted) < total_parts)

\* C4 as amended: is_part_complete() is true for a message that is not
\* multipart; for a multipart message it is false whenever fewer than
\* total_parts distinct part indices have been stored, and true otherwise.
C4_CompleteIffAllStoredOrSingle ==
    is_part_complete <=>
        \/ ~(Cardinality(DOMAIN submitted) > 1 \/ total_parts > 1)
        \/ ~(Cardinality(DOMAIN submitted) < total_parts)

C4_Witness ==
    /\ total_parts = 3
    /\ Cardinality(DOMAIN submitted) = 2
    /\ ~is_part_complete

\* C5: add_part with a part number below 1 fails with ValueError and leaves
\* total_parts, the parts mapping and the text field as they were.
C5_InvalidPartRejected ==
    [][(call'.op = "add_part" /\ call'.args[1] < 1) =>
           /\ call'.raised = "ValueError"
           /\ UNCHANGED <<total_parts, parts, text>>]_vars

C5_Witness ==
    /\ call = [op |-> "add_part", args |-> <<0>>, raised |-> "ValueError"]
    /\ LenParts = 1

C8_Multipart ==
    /\ is_multipart <=> (Cardinality(DOMAIN submitted) > 1 \/ total_parts > 1)
    /\ (call.op = "__init__" /\ ctor.total_parts # <<>> /\ ctor.total_parts[1] > 1)
           => is_multipart
    /\ Cardinality(DOMAIN submitted) > 1 => is_multipart

C8_Witness ==
    /\ call.op = "__init__"
    /\ ctor.total_parts = <<2>>
    /\ parts = EmptyDict
    /\ is_multipart

C10_ConcatenationNeverFails ==
    /\ get_concatenated_text.raised = "None"
    /\ total_parts = 1 => get_concatenated_text.value = text
    /\ (\E i \in 1..total_parts : i \notin DOMAIN submitted) =>
           get_concatenated_text.value = text

C10_Witness ==
    /\ total_parts = 3
    /\ DOMAIN submitted = {2, 3}
    /\ get_concatenated_text = [raised |-> "None", value |-> text]

\* C11: as long as add_part has not been called, a message created with
\* total_parts absent behaves exactly like one created with total_parts = 1:
\* total_parts is 1, is_multipart() is false, is_part_complete() is true and
\* get_concatenated_text() returns the text unchanged.
C11_AbsentTotalIsOne ==
    (call.op = "__init__" /\ ctor.total_parts \in {<<>>, <<1>>}) =>
        /\ total_parts = 1
        /\ ~is_multipart
        /\ is_part_complete
        /\ get_concatenated_text = [raised |-> "None", value |-> ctor.text]

C11_Witness ==
    /\ call.op = "__init__"
    /\ ctor.total_parts = <<>>
    /\ ctor.text = <<65>>
    /\ ~is_multipart
    /\ get_concatenated_text.value = <<65>>

\* C12: round trip: for every message text, also one with characters outside
\* ASCII and outside Latin-1, to_dict() yields a text field and the client's
\* _decode_text of that field is the original text.
C12_TextRoundTrip ==
    /\ call.op = "to_dict" => (call.raised = "None" /\ wire # <<>>)
    /\ call.op = "get_sms" =>
           decoded = <<[raised |-> "None", value |-> plain]>>

\* C13: to_dict() completes without raising for a single-part message
\* (total_parts absent) whatever its text, non-Latin characters included.
C13_ToDictTotal ==
    (ctor.total_parts = <<>> /\ submitted = EmptyDict) =>
        (call.op = "to_dict" => (call.raised = "None" /\ wire # <<>>))

\* C14: whenever to_dict() produces a representation, its received_parts
\* never exceeds its total_parts, and the two are equal exactly when
\* is_part_complete() is true.
C14_ReceivedPartsTellCompleteness ==
    (call.op = "to_dict" /\ wire # <<>>) =>
        /\ wire[1].received_parts <= wire[1].total_parts
        /\ (wire[1].received_parts = wire[1].total_parts) <=> is_part_complete
        /\ wire[1].total_parts = total_parts
        /\ wire[1].received_parts =
               (IF total_parts > 1 THEN Cardinality(DOMAIN submitted) ELSE 1)

C14_Witness ==
    /\ call.op = "to_dict"
    /\ wire # <<>>
    /\ wire[1].total_parts = 2
    /\ wire[1].received_parts = 1
    /\ ~is_part_complete

\* C15: event status never regresses: once the status of an event is not
\* pending any more, no later call moves it back to pending.
C15_StatusNeverRegresses ==
    [][\A i \in DOMAIN events :
           events[i].status # "pending" => events'[i].status # "pending"]_vars

\* C16: an event has an error text only if its status is failed or error,
\* whatever add_event and update_event_status were called with.
C16_ErrorOnlyWhenFailed ==
    \A i \in DOMAIN events :
        events[i].error # <<>> => events[i].status \in {"failed", "error"}

\* a filter argument that was supplied: not None and not empty
Given(opt) == opt # <<>> /\ opt[1] # ""

\* the event matches every filter supplied to the get_events call
MatchesFilters(e, a) ==
    /\ Given(a.modem_id) => e.modem_id = a.modem_id[1]
    /\ Given(a.event_type) => e.type = a.event_type[1]
    /\ Given(a.status) => e.status = a.status[1]

\* the ids of the matching events other than id that are at least as recent
AtLeastAsRecent(id, a) ==
    {f \in DOMAIN issued \ {id} :
        /\ MatchesFilters(issued[f], a)
        /\ events[f].timestamp >= events[id].timestamp}

\* C17: once add_event has returned id e, every get_events call whose filters
\* match the event, and whose limit is not used up by the other matching
\* events that are at least as recent, returns an event with id e that has
\* the type, modem_id, status, error and body that were supplied.
C17_AddedEventIsVisible ==
    db_call.op = "get_events" =>
        \A e \in DOMAIN issued :
            (/\ MatchesFilters(issued[e], db_call.args)
             /\ Cardinality(AtLeastAsRecent(e, db_call.args)) < db_call.args.limit)
            => \E k \in DOMAIN db_call.result :
                   LET r == db_call.result[k]
                   IN  /\ r.id = e
                       /\ r.type = issued[e].type
                       /\ r.modem_id = issued[e].modem_id
                       /\ r.status = issued[e].status
                       /\ r.error = issued[e].error
                       /\ r.body = issued[e].body

C17_Witness ==
    /\ db_call.op = "get_events"
    /\ Len(events) = 2
    /\ db_call.args.modem_id = <<"01">>
    /\ db_call.args.limit = 1
    /\ Len(db_call.result) = 1
    /\ db_call.result[1].id = 2
    /\ db_call.result[1].status = "failed"
    /\ db_call.result[1].error = <<"boom">>

\* the fields of an event that never change
Immutable(row) ==
    <<row.id, row.type, row.modem_id, row.timestamp, row.body, row.created_at>>

\* C18: update_event_status(e, ..) changes only the status, error and
\* updated_at of event e; the other fields of e and every other event stay as
\* they are, and no step removes an event.
C18_OnlyStatusAndErrorChange ==
    [][/\ Len(events') >= Len(events)
       /\ \A i \in DOMAIN events : Immutable(events'[i]) = Immutable(events[i])
       /\ db_call'.op = "update_event_status" =>
              /\ Len(events') = Len(events)
              /\ \A i \in DOMAIN events :
                     i # db_call'.args.id => events'[i] = events[i]]_vars

C18_Witness ==
    /\ db_call.op = "update_event_status"
    /\ db_call.args.id = 1
    /\ Len(events) = 2
    /\ events[1].status = "processed"
    /\ events[2].status = "pending"
    /\ events[2].error = <<"boom">>
    /\ events[1].error = <<>>

\* C19: get_events returns exactly the stored events that satisfy all the
\* filters supplied, most recent first by timestamp, cut to the limit, and
\* the events kept are the most recent matching ones.
C19_GetEventsFiltersOrdersLimits ==
    db_call.op = "get_events" =>
        LET a == db_call.args
            r == db_call.result
            matching == {i \in DOMAIN events : MatchesFilters(events[i], a)}
            kept == {r[k].id : k \in DOMAIN r}
        IN  /\ Len(r) = IF a.limit < Cardinality(matching)
                        THEN a.limit ELSE Cardinality(matching)
            /\ Cardinality(kept) = Len(r)
            /\ kept \subseteq matching
            /\ \A k \in DOMAIN r :
                   r[k] = [events[r[k].id] EXCEPT !.body = issued[r[k].id].body]
            /\ \A j, k \in DOMAIN r :
                   j < k => r[j].timestamp >= r[k].timestamp
            /\ \A i \in matching \ kept, k \in DOMAIN r :
                   events[i].timestamp <= r[k].timestamp

C19_Witness ==
    /\ db_call.op = "get_events"
    /\ db_call.args.status = <<"pending">>
    /\ db_call.args.event_type = <<>>
    /\ Len(events) = 2
    /\ Len(db_call.result) = 2
    /\ db_call.result[1].id = 2
    /\ db_call.result[1].timestamp > db_call.result[2].timestamp
    /\ db_call.result[1].modem_id # db_call.result[2].modem_id

\* C20: of any two events the one inserted earlier (smaller id) has a
\* timestamp that is not later, also when several processes call add_event
\* at the same time.
C20_TimestampsFollowInsertion ==
    \A i, j \in DOMAIN events :
        i < j => events[i].timestamp <= events[j].timestamp

\* the rows of a modem_state table that belong to modem m
RowsOf(table, m) == {r \in table : r.modem_id = <<m>>}

\* the update_modem_state calls for modem m that returned normally, in order
Succeeded(m) ==
    SelectSeq(modem_log, LAMBDA e : e.modem_id = m /\ e.raised = "None")

\* the value of a telemetry field nobody has supplied: 0 for the online
\* flag, null for the others
Absent(c) == IF c = "is_online" THEN <<0>> ELSE NULL

\* the update_modem_state call that ends in this step
EndedCall == modem_log'[Len(modem_log')]

\* C21: update_modem_state(m, fields) on an existing row changes only the
\* named fields and updated_at: every other field of the row keeps its value,
\* the rows of the other modems stay as they are, no row appears or goes, and
\* when the call returns the named fields hold the values given and
\* updated_at the time of the call.
C21_UpdateKeepsUnnamedFields ==
    [][(/\ Len(modem_log') > Len(modem_log)
        /\ RowsOf(modem_state, EndedCall.modem_id) # {}) =>
           LET m  == EndedCall.modem_id
               kw == EndedCall.kwargs
           IN  /\ \A r \in modem_state : r.modem_id # <<m>> => r \in modem_state'
               /\ Cardinality(modem_state') = Cardinality(modem_state)
               /\ \A r \in RowsOf(modem_state, m) :
                      \E q \in RowsOf(modem_state', m) :
                          /\ \A c \in ModemColumns \ (DOMAIN kw \cup {"updated_at"}) :
                                 q[c] = r[c]
                          /\ EndedCall.raised = "None" =>
                                 /\ \A c \in DOMAIN kw : q[c] = kw[c]
                                 /\ q.updated_at = <<now'>>]_vars

C21_Witness ==
    /\ db_call.op = "update_modem_state"
    /\ db_call.raised = "None"
    /\ db_call.args.modem_id = "00"
    /\ db_call.args.kwargs = "network" :> <<"op">>
    /\ \E r \in modem_state :
           /\ r.modem_id = <<"00">>
           /\ r.balance = <<10>>
           /\ r.network = <<"op">>
           /\ r.created_at = <<0>>
           /\ r.updated_at = <<1>>
    /\ \E r \in modem_state : r.modem_id = <<"01">> /\ r.is_online = <<1>>

\* C22: after one update_modem_state call for a modem has returned (the call
\* that creates the row) the row holds the fields of that call and every
\* other telemetry field is still absent; after a second call with fields
\* disjoint from the first has returned, the row holds the values of both
\* calls and the remaining telemetry fields are absent.
C22_DisjointUpdatesAccumulate ==
    \A m \in ModemIds :
        LET h == Succeeded(m)
        IN  /\ Len(h) = 1 =>
                /\ RowsOf(modem_state, m) # {}
                /\ \A r \in RowsOf(modem_state, m) :
                       /\ \A c \in DOMAIN h[1].kwargs : r[c] = h[1].kwargs[c]
                       /\ \A c \in TelemetryColumns \ DOMAIN h[1].kwargs :
                              r[c] = Absent(c)
            /\ (Len(h) = 2 /\ DOMAIN h[1].kwargs \cap DOMAIN h[2].kwargs = {}) =>
                /\ RowsOf(modem_state, m) # {}
                /\ \A r \in RowsOf(modem_state, m) :
                       /\ \A c \in DOMAIN h[1].kwargs : r[c] = h[1].kwargs[c]
                       /\ \A c \in DOMAIN h[2].kwargs : r[c] = h[2].kwargs[c]
                       /\ \A c \in TelemetryColumns \
                                   (DOMAIN h[1].kwargs \cup DOMAIN h[2].kwargs) :
                              r[c] = Absent(c)

C22_Witness ==
    /\ Len(Succeeded("00")) = 2
    /\ Succeeded("00")[1].kwargs = "balance" :> <<10>>
    /\ Succeeded("00")[2].kwargs = "network" :> <<"op">>
    /\ \E r \in modem_state :
           /\ r.modem_id = <<"00">>
           /\ r.balance = <<10>>
           /\ r.network = <<"op">>
           /\ r.is_online = <<0>>

\* C23: update_modem_state calls that run at the same time for one modem end
\* as if they had run one after the other: every call returns normally, the
\* modem has exactly one row, and a field named by one call only holds the
\* value of that call.
C23_ConcurrentUpdatesSerialized ==
    /\ \A i \in DOMAIN modem_log : modem_log[i].raised = "None"
    /\ \A i \in DOMAIN modem_log :
           Cardinality(RowsOf(modem_state, modem_log[i].modem_id)) = 1
    /\ \A i \in DOMAIN modem_log :
           \A c \in DOMAIN modem_log[i].kwargs :
               (\A j \in DOMAIN modem_log \ {i} :
                    modem_log[j].modem_id = modem_log[i].modem_id
                        => c \notin DOMAIN modem_log[j].kwargs)
               => \A r \in RowsOf(modem_state, modem_log[i].modem_id) :
                      r[c] = modem_log[i].kwargs[c]

\* C24: a modem has no row, and get_modem_state answers None, until the first
\* update_modem_state call for it has returned normally; from then on it has
\* exactly one row, get_modem_state answers that row, and the telemetry
\* fields no call has supplied hold their defaults (null, is_online = 0).
C24_OneRowFromFirstUpdate ==
    /\ \A m \in ModemIds :
           IF Len(Succeeded(m)) = 0
           THEN RowsOf(modem_state, m) = {}
           ELSE /\ Cardinality(RowsOf(modem_state, m)) = 1
                /\ \A r \in RowsOf(modem_state, m), c \in TelemetryColumns :
                       (\A i \in DOMAIN Succeeded(m) :
                            c \notin DOMAIN Succeeded(m)[i].kwargs)
                       => r[c] = Absent(c)
    /\ db_call.op = "get_modem_state" =>
           IF Len(Succeeded(db_call.args.modem_id)) = 0
           THEN db_call.result = NULL
           ELSE /\ Len(db_call.result) = 1
                /\ db_call.result[1] \in modem_state
                /\ db_call.result[1].modem_id = <<db_call.args.modem_id>>

C24_Witness ==
    /\ db_call.op = "get_modem_state"
    /\ db_call.args.modem_id = "01"
    /\ Len(db_call.result) = 1
    /\ db_call.result[1].balance = <<10>>
    /\ db_call.result[1].is_online = <<0>>
    /\ db_call.result[1].network = NULL
    /\ Len(Succeeded("01")) = 1
    /\ RowsOf(modem_state, "00") = {}

\* C25: update_modem_state with a field name outside the telemetry fields
\* raises and leaves the modem_state table as it was.
C25_UnknownFieldRejected ==
    [][(/\ Len(modem_log') > Len(modem_log)
        /\ ~(DOMAIN EndedCall.kwargs \subseteq TelemetryColumns)) =>
           /\ EndedCall.raised # "None"
           /\ modem_state' = modem_state]_vars

\* C26: the ledger is append-only: no call of the storage layer changes or
\* removes a row of financial_activity, an add_financial_activity call adds
\* exactly one row that carries its arguments, and no other call adds one.
C26_LedgerAppendOnly ==
    [][/\ \A i \in DOMAIN financial_activity :
              /\ i \in DOMAIN financial_activity'
              /\ financial_activity'[i] = financial_activity[i]
       /\ IF db_call'.op = "add_financial_activity"
          THEN /\ Len(financial_activity') = Len(financial_activity) + 1
               /\ LET new == financial_activity'[Len(financial_activity')]
                  IN  /\ new.modem_id = db_call'.args.modem_id
                      /\ new.event_type = db_call'.args.event_type
                      /\ new.amount = db_call'.args.amount
                      /\ new.currency = db_call'.args.currency
                      /\ new.details = db_call'.args.details
          ELSE Len(financial_activity') = Len(financial_activity)]_vars

C26_Witness ==
    /\ Len(financial_activity) = 2
    /\ financial_activity[1].modem_id = "01"
    /\ financial_activity[2].modem_id = "00"
    /\ financial_activity[2].amount = <<5>>
    /\ db_call.op = "update_event_status"
    /\ Len(events) = 1
    /\ events[1].status = "processed"
    /\ RowsOf(modem_state, "00") # {}

\* the rows of modem m written in the days-long window that ends at the
\* time t of the call; created_at is the time in UTC at which a row was written
InWindow(m, days, t) ==
    {i \in DOMAIN financial_activity :
        /\ financial_activity[i].modem_id = m
        /\ financial_activity[i].created_at >= t - days * DayLength
        /\ financial_activity[i].created_at <= t}

\* C27: get_financial_activity_period(m, days) returns exactly the rows of
\* modem m written within the days-long window ending at the call, the most
\* recent first, no row of another modem, and for days >= 1 a row of m
\* written just before the call.
C27_PeriodIsTrailingWindow ==
    db_call.op = "get_financial_activity_period" =>
        LET a == db_call.args
            r == db_call.result
        IN  /\ {r[k].id : k \in DOMAIN r} = InWindow(a.modem_id, a.days, db_call.at)
            /\ Len(r) = Cardinality(InWindow(a.modem_id, a.days, db_call.at))
            /\ \A k \in DOMAIN r : r[k] = financial_activity[r[k].id]
            /\ \A k \in DOMAIN r : r[k].modem_id = a.modem_id
            /\ \A j, k \in DOMAIN r : j < k => r[j].timestamp >= r[k].timestamp
            /\ \A i \in DOMAIN financial_activity :
                   (/\ financial_activity[i].modem_id = a.modem_id
                    /\ financial_activity[i].created_at = db_call.at
                    /\ a.days >= 1)
                   => \E k \in DOMAIN r : r[k].id = i

\* the sleeps of the send_sms call, in order
SleepsMade == SelectSeq(rpc_log, LAMBDA e : e.method = "sleep")

\* send_sms was called with confirmation requested, the gateway has answered
\* the polls with false, false, false, true in this order, and send_sms has
\* returned
FalseThriceThenTrue ==
    /\ pc = "done"
    /\ request[1].wait_for_delivery = 1
    /\ Len(PollsMade) <= 4
    /\ \A k \in DOMAIN PollsMade :
           /\ PollsMade[k].reply.raised = "None"
           /\ PollsMade[k].reply.value = (IF k <= 3 THEN 0 ELSE 1)

\* C28 as stated: when get_delivery_status answers false three times and then
\* true, send_sms with confirmation makes exactly three poll calls before it
\* returns, each 3 time units after the one before.
C28_ThreePollsBeforeReturn ==
    FalseThriceThenTrue =>
        /\ Len(PollsMade) = 3
        /\ \A k \in 1..(Len(PollsMade) - 1) :
               PollsMade[k + 1].issued - PollsMade[k].answered = 3

\* C28 as amended: when get_delivery_status answers false three times and
\* then true, send_sms with confirmation makes exactly four poll calls before
\* it returns, the three answered false and the one answered true, with
\* exactly three sleeps, and each poll is issued 3 time units after the
\* answer to the one before.
C28_FourPollsThreeSleeps ==
    FalseThriceThenTrue =>
        /\ Len(PollsMade) = 4
        /\ Len(SleepsMade) = 3
        /\ \A k \in 1..(Len(PollsMade) - 1) :
               PollsMade[k + 1].issued - PollsMade[k].answered = 3

C28_Witness ==
    /\ FalseThriceThenTrue
    /\ returned = <<"id-a">>
    /\ Len(PollsMade) = 4
    /\ PollsMade[4].reply.value = 1
    /\ clock = 12

\* C29: with confirmation requested send_sms returns only after a poll for
\* the id the send RPC answered has been answered truthy: the last poll, and
\* the last thing the call did, is a truthy poll, every earlier poll was
\* falsy, every poll carries that id, and the value returned is that id.
C29_ReturnsAfterTruthyPoll ==
    /\ returned # <<>> => pc = "done"
    /\ (pc = "done" /\ request[1].wait_for_delivery # 0) =>
           LET n == Len(PollsMade)
           IN  /\ n >= 1
               /\ rpc_log[1].method = "send_sms"
               /\ rpc_log[1].reply.raised = "None"
               /\ rpc_log[Len(rpc_log)] = PollsMade[n]
               /\ PollsMade[n].reply.raised = "None"
               /\ PollsMade[n].reply.value # 0
               /\ \A k \in 1..(n - 1) :
                      /\ PollsMade[k].reply.raised = "None"
                      /\ PollsMade[k].reply.value = 0
               /\ \A k \in 1..n : PollsMade[k].args[2] = rpc_log[1].reply.value
               /\ returned = <<rpc_log[1].reply.value>>

C29_Witness ==
    /\ pc = "done"
    /\ request[1].wait_for_delivery = 1
    /\ rpc_log[1].reply.value = "id-b"
    /\ Len(PollsMade) = 2
    /\ PollsMade[1].reply.value = 0
    /\ PollsMade[2].reply.value = 2
    /\ PollsMade[2].args = <<"token", "id-b">>
    /\ returned = <<"id-b">>

\* confirmation was requested, the send RPC was answered and every poll made
\* so far was answered falsy
Undelivered ==
    /\ request # <<>>
    /\ request[1].wait_for_delivery # 0
    /\ rpc_log[1].reply.raised = "None"
    /\ \A k \in DOMAIN PollsMade :
           /\ PollsMade[k].reply.raised = "None"
           /\ PollsMade[k].reply.value = 0

\* C30: the delivery poll has no timeout: as long as no poll has answered
\* truthy send_sms has not returned and is still in its loop, after any number
\* of falsy polls (below the bound of the model) one more poll follows, and a
\* truthy answer ends the call at that poll.
C30_PollsWithoutTimeout ==
    /\ [](Undelivered => (returned = <<>> /\ pc \in {"poll", "sleep"}))
    /\ \A n \in 0..(MaxPolls - 1) :
           (Undelivered /\ Len(PollsMade) = n) ~> (Len(PollsMade) = n + 1)
    /\ []((/\ Len(PollsMade) >= 1
           /\ PollsMade[Len(PollsMade)].reply.raised = "None"
           /\ PollsMade[Len(PollsMade)].reply.value # 0)
          => (/\ pc = "done"
              /\ returned = <<rpc_log[1].reply.value>>
              /\ rpc_log[Len(rpc_log)] = PollsMade[Len(PollsMade)]))

C30_Witness ==
    /\ Undelivered
    /\ Len(PollsMade) = 4
    /\ Len(SleepsMade) = 4
    /\ pc = "poll"
    /\ returned = <<>>
    /\ clock >= 12

\* C31: the client never retries after an error and never sends twice: an
\* exception of the send RPC or of a poll is the last thing the send_sms call
\* did, the call has ended with that exception at the moment it was raised
\* and returned nothing, a call that ended with an exception ended with an
\* RPC that raised, and the log of one send_sms call holds exactly one send
\* RPC, the first entry, however many polls follow.
C31_ErrorsEndTheCallOneSend ==
    /\ \A k \in DOMAIN rpc_log :
           rpc_log[k].reply.raised # "None" =>
               /\ k = Len(rpc_log)
               /\ rpc_log[k].method \in {"send_sms", "get_delivery_status"}
               /\ pc = "raised"
               /\ returned = <<>>
               /\ clock = rpc_log[k].answered
    /\ pc = "raised" => rpc_log[Len(rpc_log)].reply.raised # "None"
    /\ rpc_log # <<>> =>
           /\ rpc_log[1].method = "send_sms"
           /\ \A k \in 2..Len(rpc_log) : rpc_log[k].method # "send_sms"
           /\ rpc_log[1].args = <<"token", request[1].sender, request[1].recipient,
                                 request[1].text, request[1].flash>>

C31_Witness ==
    /\ pc = "raised"
    /\ returned = <<>>
    /\ Len(PollsMade) = 3
    /\ PollsMade[3].reply.raised = "Fault"
    /\ PollsMade[2].reply.raised = "None"
    /\ Len(SelectSeq(rpc_log, LAMBDA e : e.method = "send_sms")) = 1

\* C35: the first poll follows the send RPC at once with no sleep before it;
\* every sleep lasts 3 time units and follows a poll that was answered falsy,
\* every later poll follows a sleep at once, every falsy poll is followed by
\* a sleep and a truthy poll by nothing, so that a call that has ended after
\* at least one poll made one sleep less than polls; without confirmation
\* the call makes the send RPC and nothing else.
C35_OneSleepAfterEachFalsyPoll ==
    rpc_log # <<>> =>
        LET n == Len(rpc_log)
            IsPoll(k) == rpc_log[k].method = "get_delivery_status"
            IsSleep(k) == rpc_log[k].method = "sleep"
            Answered(k) == rpc_log[k].reply.raised = "None"
        IN  /\ n >= 2 =>
                   /\ IsPoll(2)
                   /\ rpc_log[2].issued = rpc_log[1].answered
            /\ \A k \in 2..n :
                   /\ IsSleep(k) =>
                          /\ IsPoll(k - 1)
                          /\ Answered(k - 1)
                          /\ rpc_log[k - 1].reply.value = 0
                          /\ rpc_log[k].issued = rpc_log[k - 1].answered
                          /\ rpc_log[k].answered - rpc_log[k].issued = 3
                   /\ (IsPoll(k) /\ k > 2) =>
                          /\ IsSleep(k - 1)
                          /\ rpc_log[k].issued = rpc_log[k - 1].answered
                   /\ (IsPoll(k) /\ Answered(k) /\ rpc_log[k].reply.value = 0) =>
                          IF k < n THEN IsSleep(k + 1) ELSE pc = "sleep"
                   /\ (IsPoll(k) /\ Answered(k) /\ rpc_log[k].reply.value # 0) =>
                          k = n /\ pc = "done"
            /\ (pc \in {"done", "raised"} /\ Len(PollsMade) >= 1) =>
                   Len(SleepsMade) = Len(PollsMade) - 1
            /\ request[1].wait_for_delivery = 0 =>
                   /\ n = 1
                   /\ pc \in {"done", "raised"}

C35_Witness ==
    /\ pc = "done"
    /\ request[1].wait_for_delivery = 1
    /\ Len(PollsMade) = 3
    /\ Len(SleepsMade) = 2
    /\ PollsMade[3].reply.value = 1
    /\ rpc_log[1].answered = 1
    /\ PollsMade[1].issued = 1
    /\ clock = 7

\* C34: update_modem_state succeeds for every subset of the telemetry fields,
\* the empty one included: a call that names only telemetry fields returns
\* normally; with no fields and no row for the modem it inserts the row of
\* defaults, and with no fields and a row it leaves every telemetry field of
\* the row as it was and sets updated_at to the time of the call.
C34_EveryFieldSubsetSucceeds ==
    [][(/\ Len(modem_log') > Len(modem_log)
        /\ DOMAIN EndedCall.kwargs \subseteq TelemetryColumns) =>
           LET m == EndedCall.modem_id
           IN  /\ EndedCall.raised = "None"
               /\ (DOMAIN EndedCall.kwargs = {} /\ RowsOf(modem_state, m) = {}) =>
                      /\ Cardinality(RowsOf(modem_state', m)) = 1
                      /\ \A q \in RowsOf(modem_state', m), c \in TelemetryColumns :
                             q[c] = Absent(c)
               /\ (DOMAIN EndedCall.kwargs = {} /\ RowsOf(modem_state, m) # {}) =>
                      \A r \in RowsOf(modem_state, m) :
                          \E q \in RowsOf(modem_state', m) :
                              /\ \A c \in TelemetryColumns : q[c] = r[c]
                              /\ q.updated_at = <<now'>>]_vars

\* C36: in every state reached through the constructor and add_part, a
\* multipart message for which is_part_complete() is true holds exactly the
\* keys 1..total_parts, so the join of get_concatenated_text meets no missing
\* index, the fallback to text is not taken and the value returned is the
\* stored part texts in index order.
C36_CompleteHasEveryKey ==
    (is_multipart /\ is_part_complete) =>
        /\ DOMAIN parts = 1..total_parts
        /\ JoinParts(parts, total_parts).raised = "None"
        /\ get_concatenated_text =
               [raised |-> "None", value |-> InOrder(submitted, 1, total_parts)]

C36_Witness ==
    /\ is_multipart
    /\ is_part_complete
    /\ ctor.total_parts = <<2>>
    /\ total_parts = 3
    /\ DOMAIN parts = {1, 2, 3}
    /\ text = <<66>>
    /\ get_concatenated_text = [raised |-> "None", value |-> <<66, 65, 66>>]

\* the RPCs the gateway answers only to a caller that presents the token
Privileged ==
    {"get_stats", "get_sms", "get_all_sms", "read_stored_sms", "send_ussd",
     "send_sms", "get_delivery_status", "get_health_state"}

\* C32: every RPC the client issues is one of the privileged RPCs or ping;
\* every privileged RPC, each poll of the delivery loop included, has the
\* client's token as its first argument, and ping has no argument at all.
C32_TokenFirstExceptPing ==
    \A k \in DOMAIN rpc_log :
        LET e == rpc_log[k]
        IN  e.method # "sleep" =>
                /\ e.method \in Privileged \cup {"ping"}
                /\ e.method \in Privileged =>
                       /\ Len(e.args) >= 1
                       /\ e.args[1] = api_token
                /\ e.method = "ping" => e.args = <<>>

C32_Witness ==
    /\ Len(rpc_log) = 4
    /\ rpc_log[1].method = "send_sms"
    /\ rpc_log[1].args = <<"token", "+100", "+200", "hi", 0>>
    /\ rpc_log[4].method = "get_delivery_status"
    /\ rpc_log[4].args = <<"token", "id-b">>
    /\ rpc_log[4].reply.raised = "None"

\* C33: when get_sms or get_all_sms returns, the list returned has one
\* message for each message of the reply, in the same order and with the
\* same fields, every field other than text as the server sent it and the
\* text such that its base64 form is the text the server sent (decoded once,
\* not twice and not left encoded); when read_stored_sms returns, it returns
\* the reply as the server sent it.  None of these methods fails on a reply
\* other than get_sms and get_all_sms on a text that does not decode.
C33_DecodedOnceOrNotAtAll ==
    (/\ rpc_log # <<>>
     /\ rpc_log[1].method \in {"get_sms", "get_all_sms", "read_stored_sms"}
     /\ rpc_log[1].reply.raised = "None") =>
        LET sent == rpc_log[1].reply.value
        IN  IF rpc_log[1].method = "read_stored_sms"
            THEN /\ pc = "done"
                 /\ returned = <<sent>>
            ELSE /\ pc = "done" =>
                        /\ Len(returned[1]) = Len(sent)
                        /\ \A k \in DOMAIN sent :
                               /\ DOMAIN returned[1][k] = DOMAIN sent[k]
                               /\ \A f \in DOMAIN sent[k] \ {"text"} :
                                      returned[1][k][f] = sent[k][f]
                               /\ ToDictEncode(returned[1][k].text) =
                                      [raised |-> "None", value |-> sent[k].text]
                 /\ pc # "done" =>
                        \E k \in DOMAIN sent :
                            \E c \in DOMAIN b64decode(sent[k].text).value :
                                b64decode(sent[k].text).value[c] >= 128

C33_Witness ==
    /\ pc = "done"
    /\ rpc_log[1].method = "get_all_sms"
    /\ Len(rpc_log[1].reply.value) = 2
    /\ rpc_log[1].reply.value[1].text = <<85, 86, 69, 57, 80, 81, 61, 61>>
    /\ rpc_log[1].reply.value[2].text = <<81, 81, 61, 61>>
    /\ returned[1][1].text = <<81, 81, 61, 61>>
    /\ returned[1][2].text = <<65>>
    /\ returned[1][2].sender = "+700"

\* C37: delivering a part again is harmless: an add_part call for an index
\* that is already stored keeps the set of stored indices and total_parts,
\* leaves every other part as it was, stores the text of this call under the
\* index (the last write wins), does not turn an incomplete message into a
\* complete one, and, when the text is the one already stored, changes
\* nothing of the message at all.
C37_DuplicatePartHarmless ==
    [][(/\ call'.op = "add_part"
        /\ call'.raised = "None"
        /\ call'.args[1] \in DOMAIN parts) =>
           LET p == call'.args[1]
           IN  /\ DOMAIN parts' = DOMAIN parts
               /\ \A k \in DOMAIN parts \ {p} : parts'[k] = parts[k]
               /\ parts'[p] = submitted'[p]
               /\ total_parts' = total_parts
               /\ ~is_part_complete => ~is_part_complete'
               /\ parts[p] = submitted'[p] =>
                      UNCHANGED <<text, total_parts, part_number, parts>>]_vars

C37_Witness ==
    /\ call = [op |-> "add_part", args |-> <<2>>, raised |-> "None"]
    /\ replaced = << <<65>> >>
    /\ parts[2] = <<66>>
    /\ DOMAIN parts = {1, 2}
    /\ total_parts = 3
    /\ ~is_part_complete

\* C38: in the USSD conversation of an authorized user, a text message sent
\* in the phone-number state moves the conversation to the USSD-code state,
\* and a text message sent in the USSD-code state makes exactly one send_ussd
\* call, with the phone number sent before and the code of this message, and
\* ends the conversation.
C38_UssdConversation ==
    [][/\ (/\ bot_update'.kind = "text"
           /\ bot_update'.user \in allowed_users
           /\ conversations["ussd"][bot_update'.user] = <<PHONE_NUMBER>>) =>
              conversations'["ussd"][bot_update'.user] = <<USSD_CODE>>
       /\ (/\ bot_update'.kind = "text"
           /\ bot_update'.user \in allowed_users
           /\ conversations["ussd"][bot_update'.user] = <<USSD_CODE>>) =>
              /\ Len(bot_update'.rpcs) = 1
              /\ bot_update'.rpcs[1].method = "send_ussd"
              /\ bot_update'.rpcs[1].args =
                     <<user_data[bot_update'.user]["phone_number"],
                       bot_update'.data>>
              /\ conversations'["ussd"][bot_update'.user] = <<>>]_vars

\* C39: no update of a user outside allowed_users makes the bot call the RPC
\* client: such a user never has a conversation, none of the conversation
\* steps ever runs for an update of theirs, nothing is stored for them, and
\* the update handled last, if theirs, made no call.
C39_UnauthorizedNeverCallsGateway ==
    /\ \A u \in Users \ allowed_users :
           /\ \A h \in DOMAIN conversations : conversations[h][u] = <<>>
           /\ user_data[u] = NoUserData
    /\ (bot_update.user \in Users \ allowed_users) =>
           /\ bot_update.rpcs = <<>>
           /\ bot_update.callback \notin
                  {"phone_number", "ussd_code", "sms_recipient", "sms_text",
                   "sms_flash"}

C39_Witness ==
    /\ bot_update = [user |-> 2, kind |-> "callback", data |-> "flash_yes",
                     callback |-> "none", rpcs |-> <<>>]
    /\ conversations["sms"][1] = <<SMS_FLASH>>
    /\ conversations["sms"][2] = <<>>
    /\ conversations["ussd"][2] = <<>>

====
